---- MODULE Spec2Model ----
(***************************************************************************)
(* Market-data ingestion pipeline of the polymarket scripts:               *)
(*   - Bulk Extractor   (scripts/extract_trades.py)                        *)
(*   - Stream Collector (scripts/websocket_collector.py)                   *)
(*   - Snapshot Poller  (scripts/orderbook_poller.py)                      *)
(* The three programs are separate processes with their own storage        *)
(* handle; each has its own specification (SpecEx, SpecWs, SpecOb) over    *)
(* its own variables, the variables of the other two staying unchanged.    *)
(*                                                                         *)
(* Fill-record ids are modelled by their rank in the remote's ascending    *)
(* id order (1, 2, 3, ...); NoId is the empty string "" of the source.     *)
(* Times are in seconds, prices in cents (hundredths of the unit price).   *)
(***************************************************************************)
EXTENDS Integers, Sequences, FiniteSets, TLC

VARIABLES
    \* ---- Bulk Extractor (extract_trades.py) ----
    ex_pc,              \* position of main()
    ex_remote,          \* number of records the (static) remote holds
    ex_db,              \* ids stored in the local trades table
    ex_db0,             \* ids stored when the run started (history)
    ex_db_count,        \* main: db_count
    ex_total_trades,    \* main: total_trades
    ex_last_id,         \* main: last_id (the cursor)
    ex_batch_num,       \* main: batch_num
    ex_total_inserted,  \* main: total_inserted
    ex_trades,          \* main: trades (the page just fetched)
    ex_attempt,         \* query_subgraph: attempt
    ex_outcomes,        \* outcomes of the attempts of the current/last query (history)
    ex_sleeps,          \* time.sleep calls of the current/last query (history)
    ex_qvalue,          \* what the last query_subgraph call returned
    ex_requests,        \* len(trades) of every page request of the run (history)
    ex_page_failed,     \* how a page request failed in this run, if one did (history)
    ex_elapsed,         \* main, line 202: elapsed, once the loop has ended (history)
    ex_exit,            \* how main() ended: "no", "ok" or the exception that ended it
    \* ---- Stream Collector (websocket_collector.py) ----
    ws_pc,                  \* position of run()
    ws_running,             \* self.running
    ws_conn,                \* self.conn: "none", "open", "broken" or "closed"
    ws_directory,           \* the market directory's answer at startup (input)
    ws_tokens,              \* run: tokens
    ws_subscribed,          \* self.subscribed_tokens
    ws_sub_i,               \* subscribe: i
    ws_sent,                \* subscription requests sent on this connection (history)
    ws_reconnect_delay,     \* run: reconnect_delay
    ws_orderbook_snapshots, \* rows of table orderbook_snapshots, in id order
    ws_realtime_trades,     \* rows of table realtime_trades, in id order
    ws_price_changes,       \* rows of table price_changes, in id order
    ws_stats,               \* self.stats
    ws_message,             \* the message being handled, or handled last
    ws_items,               \* its elements not yet dispatched
    ws_calls,               \* the store calls made for it, in order (history)
    ws_tx,                  \* rows inserted in the open transaction, not yet committed
    ws_pinged,              \* a ping was sent on this connection since the last message (history)
    ws_fails,               \* consecutive failed connect attempts (history)
    ws_connected_before,    \* a connect has succeeded in this run (history)
    ws_reconnected,         \* the connection last opened was not the first of the run (history)
    ws_last_wait,           \* the sleep taken before the coming connect attempt (history)
    ws_exit,                \* why run() ended: "no", "no_tokens", "stop", "error"
    \* ---- Snapshot Poller (orderbook_poller.py) ----
    ob_pc,              \* position of run()
    ob_running,         \* self.running
    ob_conn,            \* self.conn: "none", "open", "broken" or "closed"
    ob_directory,       \* the market directory's answer at startup (input)
    ob_tokens,          \* run: tokens (the selected targets)
    ob_i,               \* run: i (offset of the batch)
    ob_batch,           \* run: batch
    ob_fetched,         \* what each fetch of the batch met (history)
    ob_results,         \* run: results
    ob_j,               \* position in zip(batch, results)
    ob_written,         \* per target of the batch: "no_call", "stored", "error" (history)
    ob_snapshots,       \* rows of table orderbook_snapshots written by the poller
    ob_stats,           \* self.stats
    ob_now,             \* time.time()
    ob_cycle_start,     \* run: cycle_start
    ob_cycles,          \* cycles started (history)
    ob_faults,          \* irregular events so far (history)
    ob_exit             \* why run() ended: "no", "no_tokens", "stop", "error"

ex_vars == <<ex_pc, ex_remote, ex_db, ex_db0, ex_db_count, ex_total_trades,
             ex_last_id, ex_batch_num, ex_total_inserted, ex_trades, ex_attempt,
             ex_outcomes, ex_sleeps, ex_qvalue, ex_requests, ex_page_failed,
             ex_elapsed, ex_exit>>

ws_vars == <<ws_pc, ws_running, ws_conn, ws_directory, ws_tokens, ws_subscribed,
             ws_sub_i, ws_sent, ws_reconnect_delay, ws_orderbook_snapshots,
             ws_realtime_trades, ws_price_changes, ws_stats, ws_message, ws_items,
             ws_calls, ws_tx, ws_pinged, ws_fails, ws_connected_before, ws_reconnected,
             ws_last_wait, ws_exit>>

ob_vars == <<ob_pc, ob_running, ob_conn, ob_directory, ob_tokens, ob_i, ob_batch,
             ob_fetched, ob_results, ob_j, ob_written, ob_snapshots, ob_stats, ob_now,
             ob_cycle_start, ob_cycles, ob_faults, ob_exit>>

vars == <<ex_vars, ws_vars, ob_vars>>

ex_others == <<ws_vars, ob_vars>>

ws_others == <<ex_vars, ob_vars>>

ob_others == <<ex_vars, ws_vars>>

-----------------------------------------------------------------------------
(* General helpers *)

Min(a, b) == IF a < b THEN a ELSE b

Max(a, b) == IF a > b THEN a ELSE b

RECURSIVE Pow2(_)
Pow2(n) == IF n <= 0 THEN 1 ELSE 2 * Pow2(n - 1)

\* ceil(a / b) for a >= 0, b > 0
CeilDiv(a, b) == (a + b - 1) \div b

SetMax(S) == CHOOSE m \in S : \A x \in S : x <= m

-----------------------------------------------------------------------------
(* Bulk Extractor *)

BATCH_SIZE == 1000

RETRY_ATTEMPTS == 3

NoId == 0

\* Size of the remote, in pages, that the initial states cover.
MaxRemotePages == 2

\* Remote totals: around every page boundary, and half a page past it.
RemoteTotals ==
    UNION { {k * BATCH_SIZE, k * BATCH_SIZE + 1, k * BATCH_SIZE + (BATCH_SIZE \div 2)}
            \cup (IF k > 0 THEN {k * BATCH_SIZE - 1} ELSE {})
          : k \in 0..MaxRemotePages }

\* What one HTTP attempt of query_subgraph can meet:
\*   "data"      a 200 response whose JSON body has no 'errors' key
\*   "errors"    a 200 response whose JSON body has an 'errors' key
\*   "exception" requests raised (connection error, timeout, HTTP error status
\*               through raise_for_status, undecodable body)
Responses == {"data", "errors", "exception"}

\* One pass through the body of the for loop of query_subgraph.
\*   returned: the function returned in this pass (or ran out of attempts after it)
\*   value:    "data" or "None"
\*   slept:    the argument of time.sleep, 0 when it was not called
query_subgraph_attempt(attempt, response) ==
    CASE response = "data" ->
            [returned |-> TRUE, value |-> "data", slept |-> 0, attempt |-> attempt]
      [] response = "errors" ->
            [returned |-> TRUE, value |-> "None", slept |-> 0, attempt |-> attempt]
      [] response = "exception" ->
            [returned |-> (attempt + 1 >= RETRY_ATTEMPTS), value |-> "None",
             slept |-> Pow2(attempt), attempt |-> attempt + 1]

\* A faulty variant of get_total_trades: a failed query leaves the total unknown,
\* above every count (C35 must tell the two apart).
get_total_trades_unknown(value, remote) == IF value = "data" THEN remote ELSE remote + 1

\* get_total_trades: the remote's count, or 0 when the query gave None.
get_total_trades(value, remote) == IF value = "data" THEN remote ELSE 0

\* A fill record: its id and its content (transactionHash stands for the other
\* nine fields).
Fill(id, tx_hash) == [id |-> id, tx_hash |-> tx_hash]

\* The record of the remote with a given id; its content is fixed for good.
RemoteFill(id) == Fill(id, id)

\* The remote's answer to orderFilledEvents(first: BATCH_SIZE, orderBy: id,
\* orderDirection: asc, where: {id_gt: last_id}); no where clause when last_id is "".
orderFilledEvents(last_id, remote) ==
    LET lo == IF last_id = NoId THEN 0 ELSE last_id
        n  == Min(BATCH_SIZE, Max(0, remote - lo))
    IN  [k \in 1..n |-> RemoteFill(lo + k)]

\* extract_trades_batch: the page, or [] when the query gave None.
extract_trades_batch(value, last_id, remote) ==
    IF value = "data" THEN orderFilledEvents(last_id, remote) ELSE <<>>

\* A faulty variant of LoopEnds: the loop also ends on a page shorter than the
\* page size (C3 must tell the two apart).
LoopEndsOnShortPage(trades) == Len(trades) < BATCH_SIZE

\* main, line 176: `if not trades: break`
LoopEnds(trades) == trades = <<>>

\* A faulty variant of insert_trades: the last record of the page is left out of
\* the values (C33 must tell the two apart).
insert_trades_but_last(db, trades) ==
    db \cup {trades[k] : k \in 1..(Len(trades) - 1)}

\* A faulty variant of insert_trades: every record of the page is added, a stored
\* id or not (C17 must tell the two apart).
insert_trades_all(db, trades) == db \cup {trades[k] : k \in 1..Len(trades)}

\* insert_trades: INSERT ... ON CONFLICT (id) DO NOTHING, then commit: a record
\* whose id is stored is left out. The ids of a page are distinct.
insert_trades(db, trades) ==
    LET stored_ids == {row.id : row \in db}
    IN  db \cup {trades[k] : k \in {j \in 1..Len(trades) : trades[j].id \notin stored_ids}}

\* A faulty variant of get_last_trade_id: the run starts from the beginning
\* whatever the table holds (C34 must tell the two apart).
get_last_trade_id_fresh(db) == NoId

\* get_last_trade_id: SELECT MAX(id), or "" for an empty table.
get_last_trade_id(db) == IF db = {} THEN NoId ELSE SetMax({row.id : row \in db})

\* A faulty variant of UpToDate: equal counts do not end the run (C16 must tell
\* the two apart).
UpToDateOnlyIfMore(db_count, total_trades) == db_count > total_trades

\* main, line 155: `if db_count >= total_trades`
UpToDate(db_count, total_trades) == db_count >= total_trades

\* A faulty variant of NextCursor: the cursor moves to the first record of the
\* page (C18 must tell the two apart).
NextCursorFirst(trades) == trades[1].id

\* main, line 182: last_id = trades[-1]['id']
NextCursor(trades) == trades[Len(trades)].id

\* get_trade_count: SELECT COUNT(*)
get_trade_count(db) == Cardinality(db)

\* ---- progress and final statistics ----

\* What time.time() - start_time can be, in seconds: the two readings show the
\* same wall-clock time (the clock is not monotonic, and it ticks coarsely on some
\* platforms), or a later one.
ElapsedTimes == {0, 1}

\* The outcome of an arithmetic expression is <<value>>, or the exception raised.
ZeroDivisionError == <<>>

\* Python's a / b.
Quotient(a, b) == IF b = 0 THEN ZeroDivisionError ELSE <<a \div b>>

\* main, lines 185-192: the figures of the progress update (rate, pct and
\* eta_seconds), each division behind its guard.
ProgressUpdate(total_inserted, db_count, total_trades, elapsed) ==
    LET rate == IF elapsed > 0 THEN Quotient(total_inserted, elapsed) ELSE <<0>>
        current_count == db_count + total_inserted
        pct == IF total_trades > 0 THEN Quotient(current_count * 100, total_trades) ELSE <<0>>
        eta_seconds == IF rate # ZeroDivisionError /\ rate[1] > 0
                       THEN Quotient(total_trades - current_count, rate[1]) ELSE <<0>>
    IN  <<rate, pct, eta_seconds>>

\* main, lines 202-213: the final statistics; line 210 prints
\* total_inserted/elapsed. How main ends: "ok", or the exception raised.
FinalStats(total_inserted, elapsed) ==
    IF Quotient(total_inserted, elapsed) = ZeroDivisionError
    THEN "ZeroDivisionError" ELSE "ok"

\* The state before main() runs: the remote holds `remote` records, the local
\* table the first `stored` of them (what earlier runs left).
ExStart(remote, stored) ==
    /\ ex_pc = "begin"
    /\ ex_remote = remote
    /\ ex_db = {RemoteFill(id) : id \in 1..stored}
    /\ ex_db0 = ex_db
    /\ ex_db_count = 0
    /\ ex_total_trades = 0
    /\ ex_last_id = NoId
    /\ ex_batch_num = 0
    /\ ex_total_inserted = 0
    /\ ex_trades = <<>>
    /\ ex_attempt = 0
    /\ ex_outcomes = <<>>
    /\ ex_sleeps = <<>>
    /\ ex_qvalue = "none"
    /\ ex_requests = <<>>
    /\ ex_page_failed = "no"
    /\ ex_elapsed = 0
    /\ ex_exit = "no"

\* main, lines 145-149: connect, count the local rows, start the total query.
ExBegin ==
    /\ ex_pc = "begin"
    /\ ex_db_count' = get_trade_count(ex_db)
    /\ ex_attempt' = 0
    /\ ex_outcomes' = <<>>
    /\ ex_sleeps' = <<>>
    /\ ex_pc' = "total_query"
    /\ UNCHANGED <<ex_remote, ex_db, ex_db0, ex_total_trades, ex_last_id, ex_batch_num,
                   ex_total_inserted, ex_trades, ex_qvalue, ex_requests, ex_page_failed,
                   ex_elapsed, ex_exit>>
    /\ UNCHANGED ex_others

\* One attempt of the total-count query; when query_subgraph returns, main goes on
\* (lines 149-170): compare the counts, exit or read the resume cursor.
ExTotalAttempt ==
    /\ ex_pc = "total_query"
    /\ \E response \in Responses :
         LET r == query_subgraph_attempt(ex_attempt, response) IN
         /\ ex_outcomes' = Append(ex_outcomes, response)
         /\ ex_sleeps' = IF r.slept > 0 THEN Append(ex_sleeps, r.slept) ELSE ex_sleeps
         /\ ex_attempt' = r.attempt
         /\ IF r.returned
            THEN LET total == get_total_trades(r.value, ex_remote) IN
                 /\ ex_qvalue' = r.value
                 /\ ex_total_trades' = total
                 /\ IF UpToDate(ex_db_count, total)
                    THEN /\ ex_pc' = "up_to_date"
                         /\ ex_exit' = "ok"
                         /\ UNCHANGED <<ex_last_id, ex_batch_num>>
                    ELSE /\ ex_pc' = "page_start"
                         /\ ex_last_id' = get_last_trade_id(ex_db)
                         /\ ex_batch_num' = 0
                         /\ UNCHANGED ex_exit
            ELSE /\ ex_pc' = "total_query"
                 /\ UNCHANGED <<ex_qvalue, ex_total_trades, ex_last_id, ex_batch_num, ex_exit>>
    /\ UNCHANGED <<ex_remote, ex_db, ex_db0, ex_db_count, ex_total_inserted, ex_trades,
                   ex_requests, ex_page_failed, ex_elapsed>>
    /\ UNCHANGED ex_others

\* main, lines 172-174: a loop iteration starts and issues its page request.
ExPageStart ==
    /\ ex_pc = "page_start"
    /\ ex_batch_num' = ex_batch_num + 1
    /\ ex_attempt' = 0
    /\ ex_outcomes' = <<>>
    /\ ex_sleeps' = <<>>
    /\ ex_qvalue' = "none"
    /\ ex_pc' = "page_query"
    /\ UNCHANGED <<ex_remote, ex_db, ex_db0, ex_db_count, ex_total_trades, ex_last_id,
                   ex_total_inserted, ex_trades, ex_requests, ex_page_failed,
                   ex_elapsed, ex_exit>>
    /\ UNCHANGED ex_others

\* One attempt of a page request; when query_subgraph returns, extract_trades_batch
\* turns the result into a page and main tests it (lines 174-178); on an empty page
\* the loop ends and main reads the clock and prints the final statistics (lines
\* 201-213).
ExPageAttempt ==
    /\ ex_pc = "page_query"
    /\ \E response \in Responses :
         LET r == query_subgraph_attempt(ex_attempt, response) IN
         /\ ex_outcomes' = Append(ex_outcomes, response)
         /\ ex_sleeps' = IF r.slept > 0 THEN Append(ex_sleeps, r.slept) ELSE ex_sleeps
         /\ ex_attempt' = r.attempt
         /\ IF r.returned
            THEN LET trades == extract_trades_batch(r.value, ex_last_id, ex_remote) IN
                 /\ ex_qvalue' = r.value
                 /\ ex_trades' = trades
                 /\ ex_requests' = Append(ex_requests, Len(trades))
                 /\ ex_page_failed' = IF r.value = "None" THEN response ELSE ex_page_failed
                 /\ IF LoopEnds(trades)
                    THEN /\ ex_pc' = "complete"
                         /\ \E elapsed \in ElapsedTimes :
                              /\ ex_elapsed' = elapsed
                              /\ ex_exit' = FinalStats(ex_total_inserted, elapsed)
                    ELSE /\ ex_pc' = "insert"
                         /\ UNCHANGED <<ex_elapsed, ex_exit>>
            ELSE /\ ex_pc' = "page_query"
                 /\ UNCHANGED <<ex_qvalue, ex_trades, ex_requests, ex_page_failed,
                                ex_elapsed, ex_exit>>
    /\ UNCHANGED <<ex_remote, ex_db, ex_db0, ex_db_count, ex_total_trades, ex_last_id,
                   ex_batch_num, ex_total_inserted>>
    /\ UNCHANGED ex_others

\* main, lines 180-199: insert the page in one transaction, advance the cursor and
\* compute the progress figures from the clock. A storage error raised by the
\* insert or the commit is not caught: main ends with the exception and nothing of
\* the page is stored; so would an exception of the progress arithmetic end main,
\* the page stored.
ExInsert ==
    /\ ex_pc = "insert"
    /\ \E db_ok \in BOOLEAN :
         IF db_ok
         THEN /\ ex_db' = insert_trades(ex_db, ex_trades)
              /\ ex_total_inserted' = ex_total_inserted + Len(ex_trades)
              /\ ex_last_id' = NextCursor(ex_trades)
              /\ \E elapsed \in ElapsedTimes :
                   LET figures == ProgressUpdate(ex_total_inserted', ex_db_count,
                                                 ex_total_trades, elapsed)
                   IN  IF \E k \in 1..3 : figures[k] = ZeroDivisionError
                       THEN ex_pc' = "crashed" /\ ex_exit' = "ZeroDivisionError"
                       ELSE ex_pc' = "page_start" /\ ex_exit' = ex_exit
         ELSE /\ ex_pc' = "crashed"
              /\ ex_exit' = "psycopg2.Error"
              /\ UNCHANGED <<ex_db, ex_total_inserted, ex_last_id>>
    /\ UNCHANGED <<ex_remote, ex_db0, ex_db_count, ex_total_trades, ex_batch_num,
                   ex_trades, ex_attempt, ex_outcomes, ex_sleeps, ex_qvalue,
                   ex_requests, ex_page_failed, ex_elapsed>>
    /\ UNCHANGED ex_others

ExNext == ExBegin \/ ExTotalAttempt \/ ExPageStart \/ ExPageAttempt \/ ExInsert

\* ---- insert_trades on stores and pages of any kind ----

\* Ids of the stores and pages insert_trades is applied to on its own.
MaxInsertIds == 3

\* A stored row whose content differs from the remote record of its id.
OtherFill(id) == Fill(id, 0)

\* Tables: at most one row per id (id is the primary key), holding the remote's
\* record or another content.
InsertStores ==
    {db \in SUBSET ({RemoteFill(id) : id \in 1..MaxInsertIds}
                    \cup {OtherFill(id) : id \in 1..MaxInsertIds}) :
        \A r1, r2 \in db : r1.id = r2.id => r1 = r2}

RECURSIVE Ascending(_, _)
Ascending(ids, lo) ==
    IF \A id \in ids : id <= lo THEN <<>>
    ELSE LET id == CHOOSE m \in ids : m > lo /\ \A o \in ids : o > lo => m <= o
         IN  <<RemoteFill(id)>> \o Ascending(ids, id)

\* Non-empty pages: remote records in ascending id order.
InsertPages == {Ascending(ids, 0) : ids \in (SUBSET (1..MaxInsertIds)) \ {{}}}

\* main is about to insert the page `trades` into the table `db`.
ExAtInsert(db, trades) ==
    /\ ex_pc = "insert"
    /\ ex_remote = MaxInsertIds
    /\ ex_db = db
    /\ ex_db0 = db
    /\ ex_db_count = get_trade_count(db)
    /\ ex_total_trades = MaxInsertIds
    /\ ex_last_id = NoId
    /\ ex_batch_num = 1
    /\ ex_total_inserted = 0
    /\ ex_trades = trades
    /\ ex_attempt = 0
    /\ ex_outcomes = <<"data">>
    /\ ex_sleeps = <<>>
    /\ ex_qvalue = "data"
    /\ ex_requests = <<Len(trades)>>
    /\ ex_page_failed = "no"
    /\ ex_elapsed = 0
    /\ ex_exit = "no"

ExInsertNext == ExInsert

-----------------------------------------------------------------------------
(* Stream Collector *)

WS_BATCH_SIZE == 50

WS_BASE_DELAY == 1

WS_MAX_DELAY == 60

\* Bounds of the collector's model: stored rows at which no further message is
\* delivered, and consecutive failed connect attempts.
MaxRows == 2

MaxFails == 7

\* Optional values (Python's None / a value).
None == <<>>

Some(v) == <<v>>

\* ---- inbound events ----

Level(price, size) == [price |-> price, size |-> size]

\* A field of a delta that holds text float() rejects ('n/a'); it is told from a
\* number Some(v) and from an absent key None by its length.
NotANumber == <<0, 0>>

\* A delta of a price_change event; price and size are optional like an event's
\* price, or text that is no number.
Delta(asset, price, size) == [asset_id |-> asset, price |-> price, size |-> size]

Event(is_dict, type, asset, ts, bids, asks, price, changes) ==
    [is_dict |-> is_dict, event_type |-> type, asset_id |-> asset, timestamp |-> ts,
     bids |-> bids, asks |-> asks, price |-> price, price_changes |-> changes]

\* The price of an event is optional: None when the 'price' key is absent.
BookEvent == Event(TRUE, "book", 1, 1, <<Level(40, 10)>>, <<Level(60, 10)>>, None, <<>>)

TradeEvent == Event(TRUE, "last_trade_price", 1, 1, <<>>, <<>>, Some(50), <<>>)

LaterTradeEvent == Event(TRUE, "last_trade_price", 1, 2, <<>>, <<>>, Some(50), <<>>)

PriceChangeEvent ==
    Event(TRUE, "price_change", 1, 1, <<>>, <<>>, None,
          <<Delta(1, Some(40), Some(5)), Delta(1, Some(60), Some(5))>>)

\* A price_change whose second delta has a price that is no number, and one
\* whose 'price_changes' list is empty.
MalformedPriceChangeEvent ==
    Event(TRUE, "price_change", 1, 5, <<>>, <<>>, None,
          <<Delta(1, Some(40), Some(5)), Delta(1, NotANumber, Some(5))>>)

EmptyPriceChangeEvent == Event(TRUE, "price_change", 1, 6, <<>>, <<>>, None, <<>>)

\* A trade without a 'price' key, and a trade priced at 1.50.
UnpricedTradeEvent == Event(TRUE, "last_trade_price", 1, 3, <<>>, <<>>, None, <<>>)

OverpricedTradeEvent == Event(TRUE, "last_trade_price", 1, 4, <<>>, <<>>, Some(150), <<>>)

\* data.get('event_type') of an object without that key (Python's None).
NoType == ""

\* An object of a kind the collector does not know, an object without
\* event_type, and an array element that is not an object.
UnknownEvent == Event(TRUE, "tick_size_change", 1, 1, <<>>, <<>>, None, <<>>)

UntypedEvent == Event(TRUE, NoType, 1, 1, <<>>, <<>>, None, <<>>)

NonObject == Event(FALSE, NoType, 0, 0, <<>>, <<>>, None, <<>>)

\* A push message: valid JSON holding one object or an array, or undecodable text.
Message(json, items) == [json |-> json, items |-> items]

Messages ==
    { Message("object", <<BookEvent>>),
      Message("object", <<TradeEvent>>),
      Message("object", <<LaterTradeEvent>>),
      Message("object", <<PriceChangeEvent>>),
      Message("array", <<BookEvent, TradeEvent, PriceChangeEvent>>),
      Message("array", <<UnknownEvent, UntypedEvent, NonObject, TradeEvent>>),
      Message("object", <<UnpricedTradeEvent>>),
      Message("object", <<OverpricedTradeEvent>>),
      Message("array", <<MalformedPriceChangeEvent, PriceChangeEvent>>),
      Message("object", <<EmptyPriceChangeEvent>>),
      Message("invalid", <<>>) }

NoMessage == Message("none", <<>>)

\* ---- the market directory's answer (GET /markets) ----

\* A market of the answer: its clobTokenIds field is absent (has_ids FALSE), or a
\* string that json.loads accepts (ids_parse TRUE) or rejects.
Market(has_ids, ids_parse, ids) == [has_ids |-> has_ids, ids_parse |-> ids_parse, ids |-> ids]

Answer(ok, markets) == [ok |-> ok, markets |-> markets]

\* n markets of two tokens each: market k holds tokens 2k-1 and 2k.
TwoTokenMarkets(n) == [k \in 1..n |-> Market(TRUE, TRUE, <<2 * k - 1, 2 * k>>)]

WsDirectoryAnswers ==
    { Answer(FALSE, <<>>),
      Answer(TRUE, <<>>),
      Answer(TRUE, <<Market(FALSE, TRUE, <<>>), Market(TRUE, FALSE, <<>>)>>),
      Answer(TRUE, TwoTokenMarkets(1)),
      Answer(TRUE, TwoTokenMarkets((WS_BATCH_SIZE \div 2) + 1)) }

RECURSIVE CollectTokens(_)
CollectTokens(markets) ==
    IF markets = <<>> THEN <<>>
    ELSE LET m == Head(markets)
         IN  (IF m.has_ids /\ m.ids_parse THEN m.ids ELSE <<>>) \o CollectTokens(Tail(markets))

\* get_active_markets: every token of every market, [] when the request fails.
get_active_markets(answer) == IF answer.ok THEN CollectTokens(answer.markets) ELSE <<>>

\* ---- storage ----

RECURSIVE Depth(_)
Depth(levels) ==
    IF levels = <<>> THEN 0
    ELSE Head(levels).size * Head(levels).price + Depth(Tail(levels))

\* Python truth of an optional number: None and 0.0 are false.
Truthy(opt) == opt # None /\ opt[1] # 0

\* The row store_book_snapshot inserts (lines 132-155).
SnapshotRow(data) ==
    LET best_bid == IF data.bids # <<>> THEN Some(data.bids[1].price) ELSE None
        best_ask == IF data.asks # <<>> THEN Some(data.asks[1].price) ELSE None
    IN  [token_id |-> data.asset_id, timestamp |-> data.timestamp,
         bids |-> data.bids, asks |-> data.asks,
         best_bid |-> best_bid, best_ask |-> best_ask,
         spread |-> IF Truthy(best_bid) /\ Truthy(best_ask)
                    THEN Some(best_ask[1] - best_bid[1]) ELSE None,
         bid_depth |-> Depth(data.bids), ask_depth |-> Depth(data.asks)]

\* The row store_trade inserts (lines 170-177); float(data.get('price', 0)).
TradeRow(data) ==
    [token_id |-> data.asset_id, timestamp |-> data.timestamp,
     price |-> IF data.price = None THEN 0 ELSE data.price[1]]

\* float(c.get('price', 0)) of a delta: the number, 0 when the key is absent.
DeltaNumber(field) == IF field = None THEN 0 ELSE field[1]

\* The tuples store_price_change collects in `values`, one per delta (lines
\* 190-200).
PriceChangeRows(data) ==
    [k \in 1..Len(data.price_changes) |->
        [token_id |-> data.price_changes[k].asset_id, timestamp |-> data.timestamp,
         price |-> DeltaNumber(data.price_changes[k].price),
         size |-> DeltaNumber(data.price_changes[k].size)]]

\* Collecting `values` raises ValueError at the first delta whose price or size
\* is no number (lines 195-196), before any statement is sent.
PriceChangeRaises(data) ==
    \E k \in 1..Len(data.price_changes) :
        \/ data.price_changes[k].price = NotANumber
        \/ data.price_changes[k].size = NotANumber

\* A faulty variant of Handler: an object of any other kind is taken for a trade
\* (C19 must tell the two apart).
HandlerDefaultsToTrade(data) ==
    IF ~data.is_dict THEN "none"
    ELSE CASE data.event_type = "book" -> "store_book_snapshot"
           [] data.event_type = "price_change" -> "store_price_change"
           [] OTHER -> "store_trade"

\* _process_event: the handler an element is routed to, "none" when it is dropped.
Handler(data) ==
    IF ~data.is_dict THEN "none"
    ELSE CASE data.event_type = "book" -> "store_book_snapshot"
           [] data.event_type = "last_trade_price" -> "store_trade"
           [] data.event_type = "price_change" -> "store_price_change"
           [] OTHER -> "none"

\* A faulty variant of Committed: the rows written take the place of the rows
\* the table held (C21 must tell the two apart).
CommittedOverwrites(table, rows) == rows

\* A table after INSERT INTO ... VALUES and commit: the new rows get the next
\* serial ids, behind the rows the table holds (no statement of the three
\* programs is an UPDATE or a DELETE).
Committed(table, rows) == table \o rows

\* The rows the store call `h` inserts for an element, in one transaction.
StoreRows(h, data) ==
    CASE h = "store_book_snapshot" -> <<SnapshotRow(data)>>
      [] h = "store_trade" -> <<TradeRow(data)>>
      [] h = "store_price_change" -> PriceChangeRows(data)

\* The store call raises while it builds its rows, before it touches the storage.
StoreRaises(h, data) == h = "store_price_change" /\ PriceChangeRaises(data)

\* A faulty variant of CountedRows: a price_change counts once, as a book or a
\* trade does (C37 must tell the two apart).
CountedRowsOnce(rows) == 1

\* stats['price_changes'] += len(values) (line 212).
CountedRows(rows) == Len(rows)

\* A faulty variant of StoreFailureRest: a failed write ends the handling of the
\* message (C11 must tell the two apart).
StoreFailureAbandons(conn, rest) == <<>>

\* The elements of the message still to be dispatched after a store call whose
\* write failed: the store call catches the failure and rolls back (lines 158-160
\* and the like), so the loop of handle_message goes on; on a broken handle the
\* rollback raises too, handle_message catches that (line 231) and returns.
StoreFailureRest(conn, rest) == IF conn = "broken" THEN <<>> ELSE rest

\* A faulty variant of RunCatches: only the closed connection is caught (C10
\* must tell the two apart).
RunCatchesClosedOnly(exc) == exc = "ConnectionClosed"

\* run, lines 322-325: the exceptions the connect loop catches.
RunCatches(exc) == exc \in {"ConnectionClosed", "Exception"}

\* A faulty variant of NextDelay: the doubling without the cap (C4 must tell the
\* two apart).
NextDelayUncapped(delay) == delay * 2

\* run, line 330
NextDelay(delay) == Min(delay * 2, WS_MAX_DELAY)

\* The state after WebSocketCollector() is constructed and the signal handlers
\* are installed; `answer` is what the market directory will say.
WsStart(answer) ==
    /\ ws_pc = "init"
    /\ ws_running = TRUE
    /\ ws_conn = "none"
    /\ ws_directory = answer
    /\ ws_tokens = <<>>
    /\ ws_subscribed = {}
    /\ ws_sub_i = 0
    /\ ws_sent = <<>>
    /\ ws_reconnect_delay = 0
    /\ ws_orderbook_snapshots = <<>>
    /\ ws_realtime_trades = <<>>
    /\ ws_price_changes = <<>>
    /\ ws_stats = [books |-> 0, price_changes |-> 0, trades |-> 0]
    /\ ws_message = NoMessage
    /\ ws_items = <<>>
    /\ ws_calls = <<>>
    /\ ws_tx = <<>>
    /\ ws_pinged = FALSE
    /\ ws_fails = 0
    /\ ws_connected_before = FALSE
    /\ ws_reconnected = FALSE
    /\ ws_last_wait = 0
    /\ ws_exit = "no"

ws_data == <<ws_orderbook_snapshots, ws_realtime_trades, ws_price_changes, ws_stats>>

ws_msg == <<ws_message, ws_items, ws_calls, ws_tx>>

ws_sub == <<ws_subscribed, ws_sub_i, ws_sent>>

ws_hist == <<ws_fails, ws_connected_before, ws_reconnected, ws_last_wait>>

\* What happens when `exc` is raised inside the try of the connect loop (the
\* connection, if one is open, is closed by the async with).
WsRaise(exc) ==
    /\ ws_pinged' = FALSE
    /\ IF RunCatches(exc)
       THEN /\ ws_pc' = "reconnecting"
            /\ ws_exit' = ws_exit
       ELSE /\ ws_pc' = "exited"
            /\ ws_exit' = "error"

\* A faulty variant of NoTokens: an empty instrument list does not end the run
\* (C32 must tell the two apart).
NoTokensIgnored(tokens) == FALSE

\* run, line 285: `if not tokens`
NoTokens(tokens) == tokens = <<>>

\* run, lines 278-292: open storage, resolve the instrument list, enter the loop.
WsStartup ==
    /\ ws_pc = "init"
    /\ ws_conn' = "open"
    /\ ws_tokens' = get_active_markets(ws_directory)
    /\ IF NoTokens(ws_tokens')
       THEN /\ ws_pc' = "exited"
            /\ ws_exit' = "no_tokens"
            /\ UNCHANGED ws_reconnect_delay
       ELSE /\ ws_pc' = "connecting"
            /\ ws_exit' = ws_exit
            /\ ws_reconnect_delay' = WS_BASE_DELAY
    /\ UNCHANGED <<ws_running, ws_directory, ws_sub, ws_data, ws_msg, ws_pinged, ws_hist>>
    /\ UNCHANGED ws_others

\* run, lines 293-302: one connect attempt.
WsConnect ==
    /\ ws_pc = "connecting"
    /\ ws_running
    /\ ws_last_wait' = 0
    /\ \/ /\ ws_pc' = "subscribing"
          /\ ws_reconnect_delay' = WS_BASE_DELAY
          /\ ws_sub_i' = 0
          /\ ws_sent' = <<>>
          /\ ws_fails' = 0
          /\ ws_connected_before' = TRUE
          /\ ws_reconnected' = ws_connected_before
          /\ UNCHANGED <<ws_exit, ws_subscribed, ws_pinged>>
       \/ /\ ws_fails < MaxFails
          /\ WsRaise("Exception")
          /\ ws_fails' = ws_fails + 1
          /\ UNCHANGED <<ws_reconnect_delay, ws_sub, ws_connected_before, ws_reconnected>>
    /\ UNCHANGED <<ws_running, ws_conn, ws_directory, ws_tokens, ws_data, ws_msg>>
    /\ UNCHANGED ws_others

\* A faulty variant of SubscribeBatch: everything from offset i on goes into one
\* request (C12 must tell the two apart).
SubscribeRest(token_ids, i) == SubSeq(token_ids, i + 1, Len(token_ids))

\* subscribe, line 253: token_ids[i:i+batch_size]
SubscribeBatch(token_ids, i) ==
    SubSeq(token_ids, i + 1, Min(i + WS_BATCH_SIZE, Len(token_ids)))

\* subscribe, lines 252-260: one batch of the subscription loop; after the last
\* batch run goes on to the receive loop (lines 262, 306).
WsSubscribe ==
    /\ ws_pc = "subscribing"
    /\ LET batch == SubscribeBatch(ws_tokens, ws_sub_i)
       IN  \/ /\ ws_sent' = Append(ws_sent, batch)
              /\ ws_subscribed' = ws_subscribed \cup {batch[k] : k \in 1..Len(batch)}
              /\ ws_sub_i' = ws_sub_i + WS_BATCH_SIZE
              /\ ws_pc' = IF ws_sub_i' < Len(ws_tokens) THEN "subscribing" ELSE "streaming"
              /\ UNCHANGED <<ws_exit, ws_pinged>>
           \/ /\ WsRaise("ConnectionClosed")
              /\ UNCHANGED ws_sub
    /\ UNCHANGED <<ws_running, ws_conn, ws_directory, ws_tokens, ws_reconnect_delay,
                   ws_data, ws_msg, ws_hist>>
    /\ UNCHANGED ws_others

\* run, lines 308-311, and handle_message, lines 220-230: a message arrives and is
\* decoded; undecodable text is passed over.
WsRecvMessage ==
    /\ ws_pc = "streaming"
    /\ ws_running
    /\ Len(ws_orderbook_snapshots) + Len(ws_realtime_trades) + Len(ws_price_changes) < MaxRows
    /\ \E m \in Messages :
         /\ ws_message' = m
         /\ ws_calls' = <<>>
         /\ ws_items' = m.items
         /\ ws_pc' = IF m.items = <<>> THEN "streaming" ELSE "handling"
    /\ ws_pinged' = FALSE
    /\ UNCHANGED <<ws_running, ws_conn, ws_directory, ws_tokens, ws_sub, ws_tx,
                   ws_reconnect_delay, ws_data, ws_hist, ws_exit>>
    /\ UNCHANGED ws_others

\* A faulty variant of AfterTimeout: a silent receive window forces a reconnect
\* (C13 must tell the two apart).
AfterTimeoutReconnects == "reconnecting"

\* run, lines 318-320: where run() is after the except clause of the timeout, the
\* ping sent: still in the receive loop.
AfterTimeout == "streaming"

\* run, lines 318-320: nothing arrived for 60s; a ping is sent on the connection.
\* A ping that fails raises out of the receive loop.
WsRecvTimeout ==
    /\ ws_pc = "streaming"
    /\ ws_running
    /\ \/ /\ ws_pinged' = TRUE
          /\ ws_pc' = AfterTimeout
          /\ UNCHANGED ws_exit
       \/ WsRaise("ConnectionClosed")
    /\ UNCHANGED <<ws_running, ws_conn, ws_directory, ws_tokens, ws_sub,
                   ws_reconnect_delay, ws_data, ws_msg, ws_hist>>
    /\ UNCHANGED ws_others

\* run, line 310: recv raises because the connection was closed.
WsRecvClosed ==
    /\ ws_pc = "streaming"
    /\ ws_running
    /\ WsRaise("ConnectionClosed")
    /\ UNCHANGED <<ws_running, ws_conn, ws_directory, ws_tokens, ws_sub,
                   ws_reconnect_delay, ws_data, ws_msg, ws_hist>>
    /\ UNCHANGED ws_others

\* A faulty variant of AfterElement: the loop of handle_message does not wait for
\* the elements it dispatched; run is back at receive after the first one (C30
\* must tell the two apart).
AfterElementYields(rest) == "streaming"

\* handle_message, lines 224-227, and run, lines 308-311: where the collector is
\* when the processing of an element has returned: at the next element of the
\* array, or, none being left, back at receive.
AfterElement(rest) == IF rest = <<>> THEN "streaming" ELSE "handling"

\* handle_message, lines 223-232, and _process_event: the next element of the
\* message is dispatched; an element no handler takes is passed over. A store call
\* builds its rows and executes the INSERT (lines 131-155, 164-177, 186-210):
\*   insert "ok":    the rows are in the open transaction, the commit is next
\*   insert "error": building the rows or the INSERT raises, the rollback succeeds
\* On a broken storage handle the INSERT raises and so does the rollback.
\* store_price_change makes no write for an event without deltas (line 202).
WsProcessEvent ==
    /\ ws_pc = "handling"
    /\ LET data == Head(ws_items)
           h == Handler(data)
           rest == Tail(ws_items)
       IN  IF h = "none"
           THEN /\ ws_items' = rest
                /\ ws_pc' = AfterElement(rest)
                /\ UNCHANGED <<ws_calls, ws_tx>>
           ELSE /\ ws_calls' = Append(ws_calls, h)
                /\ IF StoreRaises(h, data)
                   THEN /\ ws_items' = StoreFailureRest(ws_conn, rest)
                        /\ ws_pc' = AfterElement(ws_items')
                        /\ UNCHANGED ws_tx
                   ELSE IF StoreRows(h, data) = <<>>
                   THEN /\ ws_items' = rest
                        /\ ws_pc' = AfterElement(rest)
                        /\ UNCHANGED ws_tx
                   ELSE \E insert \in {"ok", "error"} :
                          IF ws_conn = "broken" \/ insert = "error"
                          THEN /\ ws_items' = StoreFailureRest(ws_conn, rest)
                               /\ ws_pc' = AfterElement(ws_items')
                               /\ UNCHANGED ws_tx
                          ELSE /\ ws_tx' = StoreRows(h, data)
                               /\ ws_pc' = "committing"
                               /\ UNCHANGED ws_items
    /\ UNCHANGED <<ws_running, ws_conn, ws_directory, ws_tokens, ws_sub,
                   ws_reconnect_delay, ws_data, ws_message, ws_pinged, ws_hist, ws_exit>>
    /\ UNCHANGED ws_others

\* The commit of a store call (lines 156-157, 178-179, 211-212) and its return to
\* the loop of handle_message.
\*   commit "ok":    the rows are stored and the counter of the kind grows
\*   commit "error": the commit raises, the rollback succeeds
\* On a handle that broke after the INSERT the commit raises and so does the
\* rollback.
WsCommit ==
    /\ ws_pc = "committing"
    /\ LET h == Handler(Head(ws_items))
           rest == Tail(ws_items)
       IN  \E commit \in {"ok", "error"} :
             /\ ws_tx' = <<>>
             /\ IF ws_conn = "open" /\ commit = "ok"
                THEN /\ ws_items' = rest
                     /\ CASE h = "store_book_snapshot" ->
                               /\ ws_orderbook_snapshots' = Committed(ws_orderbook_snapshots, ws_tx)
                               /\ ws_stats' = [ws_stats EXCEPT !.books = @ + 1]
                               /\ UNCHANGED <<ws_realtime_trades, ws_price_changes>>
                          [] h = "store_trade" ->
                               /\ ws_realtime_trades' = Committed(ws_realtime_trades, ws_tx)
                               /\ ws_stats' = [ws_stats EXCEPT !.trades = @ + 1]
                               /\ UNCHANGED <<ws_orderbook_snapshots, ws_price_changes>>
                          [] h = "store_price_change" ->
                               /\ ws_price_changes' = Committed(ws_price_changes, ws_tx)
                               /\ ws_stats' = [ws_stats EXCEPT !.price_changes = @ + CountedRows(ws_tx)]
                               /\ UNCHANGED <<ws_orderbook_snapshots, ws_realtime_trades>>
                ELSE /\ ws_items' = StoreFailureRest(ws_conn, rest)
                     /\ UNCHANGED ws_data
             /\ ws_pc' = AfterElement(ws_items')
    /\ UNCHANGED <<ws_running, ws_conn, ws_directory, ws_tokens, ws_sub,
                   ws_reconnect_delay, ws_message, ws_calls, ws_pinged, ws_hist, ws_exit>>
    /\ UNCHANGED ws_others

\* run, lines 327-330: after a failure, sleep reconnect_delay, double it (capped),
\* and go round the loop.
WsBackoff ==
    /\ ws_pc = "reconnecting"
    /\ IF ws_running
       THEN /\ ws_last_wait' = ws_reconnect_delay
            /\ ws_reconnect_delay' = NextDelay(ws_reconnect_delay)
            /\ ws_pc' = "connecting"
       ELSE /\ ws_pc' = "exited"
            /\ UNCHANGED <<ws_last_wait, ws_reconnect_delay>>
    /\ UNCHANGED <<ws_running, ws_conn, ws_directory, ws_tokens, ws_sub, ws_data,
                   ws_msg, ws_pinged, ws_fails, ws_connected_before, ws_reconnected,
                   ws_exit>>
    /\ UNCHANGED ws_others

\* A faulty variant of signal_handler: the handler prints the statistics and
\* returns, the run going on where it was (C29 must tell the two apart).
signal_handler_returns(running, conn, pc) ==
    [running |-> running, conn |-> conn, pc |-> pc]

\* signal_handler and stop, lines 335-338 and 346-347: running is cleared, the
\* storage handle (if one was opened) is closed, and sys.exit(0) ends the run.
signal_handler(running, conn, pc) ==
    [running |-> FALSE,
     conn |-> IF conn = "none" THEN "none" ELSE "closed",
     pc |-> "exited"]

\* signal_handler and stop, lines 332-347: SIGINT/SIGTERM at any point of the run,
\* also inside a store call between the INSERT and the commit (the handler runs
\* between two bytecodes of the main thread); it clears running, prints, closes
\* the storage handle and raises SystemExit, which no except clause of the
\* collector catches. The server discards a transaction that was open when the
\* handle was closed; ws_tx keeps its rows as the record of the write that was cut.
WsStop ==
    /\ ws_pc # "exited"
    /\ LET after == signal_handler(ws_running, ws_conn, ws_pc)
       IN  /\ ws_running' = after.running
           /\ ws_conn' = after.conn
           /\ ws_pc' = after.pc
    /\ ws_exit' = "stop"
    /\ UNCHANGED <<ws_directory, ws_tokens, ws_sub, ws_reconnect_delay, ws_data,
                   ws_msg, ws_pinged, ws_hist>>
    /\ UNCHANGED ws_others

\* The storage server goes away: the handle is unusable from now on (nothing in
\* the collector opens a new one).
WsStorageLost ==
    /\ ws_pc \notin {"init", "exited"}
    /\ ws_conn = "open"
    /\ ws_conn' = "broken"
    /\ UNCHANGED <<ws_pc, ws_running, ws_directory, ws_tokens, ws_sub,
                   ws_reconnect_delay, ws_data, ws_msg, ws_pinged, ws_hist, ws_exit>>
    /\ UNCHANGED ws_others

WsProgram ==
    \/ WsStartup \/ WsConnect \/ WsSubscribe \/ WsRecvMessage \/ WsRecvTimeout
    \/ WsRecvClosed \/ WsProcessEvent \/ WsCommit \/ WsBackoff

WsNext == WsProgram \/ WsStop \/ WsStorageLost

-----------------------------------------------------------------------------
(* Snapshot Poller *)

POLL_INTERVAL == 60

OB_BATCH_SIZE == 20

BATCH_DELAY == 2

OB_LIMIT == 100

\* The mid-price bounds 0.10 and 0.90, in cents.
OB_MID_LOW == 10

OB_MID_HIGH == 90

\* Bounds of the poller's model: polling cycles of a run, irregular events of a
\* run (failed fetches, one-sided books, failed writes, loss of storage), and the
\* length of the directory answers the target selection is checked on.
MaxCycles == 1

MaxFaults == 1

MaxMarkets == 2

\* ---- the market directory's answer (GET /markets, ordered by volume) ----

\* A JSON field holding a number: absent, a number (in cents), or a value float()
\* rejects.
Absent == [kind |-> "absent", v |-> 0]

Num(v) == [kind |-> "num", v |-> v]

Unparsable == [kind |-> "bad", v |-> 0]

\* A market of the answer; its 'question' is text unless stated otherwise.
ObMarket(bestBid, bestAsk, has_ids, ids_parse, ids) ==
    [bestBid |-> bestBid, bestAsk |-> bestAsk,
     has_ids |-> has_ids, ids_parse |-> ids_parse, ids |-> ids, question |-> "text"]

\* The market with a 'question' key that holds JSON null.
NullQuestion(m) == [m EXCEPT !.question = "null"]

\* float(m.get(field, default) or default): an absent field and a falsy value
\* (0, None, "") both give the default. Not defined for a value float() rejects.
FieldOrDefault(field, default) ==
    IF field.kind = "num" /\ field.v # 0 THEN field.v ELSE default

\* A faulty variant of SkipExtreme: the bounds themselves are skipped too (C6
\* must tell the two apart).
SkipExtremeAndBounds(best_bid, best_ask) ==
    \/ best_bid + best_ask <= 2 * OB_MID_LOW
    \/ best_bid + best_ask >= 2 * OB_MID_HIGH

\* get_top_markets, line 63: `mid_price < 0.10 or mid_price > 0.90`, with
\* mid_price = (best_bid + best_ask) / 2; both sides of each comparison doubled.
SkipExtreme(best_bid, best_ask) ==
    \/ best_bid + best_ask < 2 * OB_MID_LOW
    \/ best_bid + best_ask > 2 * OB_MID_HIGH

\* get_top_markets, lines 57-66: whether the price filter skips the market. A
\* value float() rejects raises inside the try, and `except: pass` lets the
\* market through.
FilteredOut(m) ==
    /\ m.bestBid.kind # "bad"
    /\ m.bestAsk.kind # "bad"
    /\ SkipExtreme(FieldOrDefault(m.bestBid, 0), FieldOrDefault(m.bestAsk, 100))

\* get_top_markets, lines 68-79: the market's first token, if it has one. The
\* entry is built inside the try that guards json.loads: m.get('question', '')[:50]
\* raises TypeError on a null question, and `except: pass` drops the market.
FirstToken(m) ==
    IF m.has_ids /\ m.ids_parse /\ m.ids # <<>> /\ m.question # "null"
    THEN <<m.ids[1]>> ELSE <<>>

\* get_top_markets, lines 51-80: the loop over the markets, started with `tokens`
\* held. A round appends the first token of a market the price filter lets
\* through, one at most, and the loop breaks at the first round that finds
\* `limit` tokens held: what it returns is the tokens those markets give in the
\* order of the answer, cut where the list holds `limit`.
SelectTokens(markets, tokens, limit) ==
    LET appends == SelectSeq(markets, LAMBDA m : ~FilteredOut(m) /\ FirstToken(m) # <<>>)
        room == IF Len(tokens) >= limit THEN 0 ELSE limit - Len(tokens)
        taken == IF Len(appends) <= room THEN Len(appends) ELSE room
    IN  tokens \o [k \in 1..taken |-> FirstToken(appends[k])[1]]

\* get_top_markets: the selected tokens, [] when the request fails.
get_top_markets(answer, limit) ==
    IF answer.ok THEN SelectTokens(answer.markets, <<>>, limit) ELSE <<>>

\* Markets the target selection is checked on: mid prices 0.05, 0.10, 0.50, 0.90,
\* 0.95 and more, defaults and unparsable values.
ObPriceFields == {Absent, Unparsable, Num(0), Num(10), Num(50), Num(90), Num(100)}

ObMarketDomain ==
    { ObMarket(b, a, TRUE, TRUE, <<1, 2>>) : b \in ObPriceFields, a \in ObPriceFields }
    \cup { ObMarket(Num(50), Num(50), FALSE, TRUE, <<>>),
           ObMarket(Num(50), Num(50), TRUE, FALSE, <<>>),
           ObMarket(Num(50), Num(50), TRUE, TRUE, <<>>),
           NullQuestion(ObMarket(Num(50), Num(50), TRUE, TRUE, <<1, 2>>)),
           NullQuestion(ObMarket(Absent, Absent, TRUE, TRUE, <<1, 2>>)) }

\* The market at position k of an answer holds the tokens 2k-1 and 2k.
Numbered(markets) ==
    [k \in 1..Len(markets) |->
        IF markets[k].ids = <<>> THEN markets[k]
        ELSE [markets[k] EXCEPT !.ids = <<2 * k - 1, 2 * k>>]]

RECURSIVE SeqsUpTo(_, _)
SeqsUpTo(S, n) ==
    IF n = 0 THEN {<<>>}
    ELSE LET shorter == SeqsUpTo(S, n - 1)
         IN  shorter \cup {Append(s, x) : s \in shorter, x \in S}

\* n markets with a mid price of 0.50: market k holds tokens 2k-1 and 2k.
MidMarkets(n) ==
    [k \in 1..n |-> ObMarket(Num(40), Num(60), TRUE, TRUE, <<2 * k - 1, 2 * k>>)]

\* Answers that fill the limit: a market without prices, mid-priced markets up
\* to the limit behind it, and one more market behind those.
ObFullAnswers ==
    { <<ObMarket(Absent, Absent, TRUE, TRUE, <<1, 2>>)>> \o MidMarkets(OB_LIMIT - 1) \o <<m>> :
        m \in { ObMarket(Absent, Absent, TRUE, TRUE, <<1, 2>>),
                ObMarket(Unparsable, Num(50), TRUE, TRUE, <<1, 2>>),
                ObMarket(Num(40), Num(60), TRUE, TRUE, <<1, 2>>) } }

\* Directory answers the polling loop is run on: a failed request, two targets
\* behind a near-resolved market, and one target more than a batch holds.
ObRunAnswers ==
    { Answer(FALSE, <<>>),
      Answer(TRUE, <<ObMarket(Num(96), Num(98), TRUE, TRUE, <<91, 92>>)>> \o MidMarkets(2)),
      Answer(TRUE, MidMarkets(OB_BATCH_SIZE + 1)) }

\* ---- order-book fetches ----

Book(bids, asks) == [bids |-> bids, asks |-> asks]

TwoSidedBook == Book(<<Level(40, 10), Level(39, 5)>>, <<Level(60, 10)>>)

EmptyBook == Book(<<>>, <<>>)

\* A book whose best bid stands at price 0.
ZeroBidBook == Book(<<Level(0, 10)>>, <<Level(60, 10)>>)

\* fetch_orderbook, line 91: ClientTimeout(total=10), in seconds.
FETCH_TIMEOUT == 10

\* What one GET /book can meet: a 200 response with a body, another status, a
\* timeout (10s), or another exception of the HTTP client.
Fetched(kind, body) == [kind |-> kind, body |-> body]

RegularFetch == Fetched("ok", TwoSidedBook)

IrregularFetches ==
    { Fetched("ok", EmptyBook), Fetched("ok", ZeroBidBook), Fetched("status", EmptyBook),
      Fetched("timeout", EmptyBook), Fetched("error", EmptyBook) }

\* fetch_orderbook: the parsed body, or None.
fetch_orderbook(fetched) == IF fetched.kind = "ok" THEN Some(fetched.body) ELSE None

\* A faulty variant of Gather: one failed fetch fails the whole batch (C5 must
\* tell the two apart).
GatherAllOrNothing(fetched) ==
    [k \in 1..Len(fetched) |->
        IF \A o \in 1..Len(fetched) : fetched[o].kind = "ok"
        THEN fetch_orderbook(fetched[k]) ELSE None]

\* run, lines 162-163: the fetches of a batch, gathered in batch order.
Gather(fetched) == [k \in 1..Len(fetched) |-> fetch_orderbook(fetched[k])]

\* The seconds the gather of a batch takes: the fetches run concurrently, a fetch
\* that times out takes the whole timeout, the others are answered at once.
GatherTime(fetched) ==
    IF \E k \in 1..Len(fetched) : fetched[k].kind = "timeout" THEN FETCH_TIMEOUT ELSE 0

\* A faulty variant of ShouldStore: a body without levels counts as no result
\* (C26 must tell the two apart).
ShouldStoreWithLevels(result) ==
    result # None /\ (result[1].bids # <<>> \/ result[1].asks # <<>>)

\* run, line 166: `if result and not isinstance(result, Exception)`; a body is a
\* dict with the keys bids and asks, which is true.
ShouldStore(result) == result # None

\* The seconds a storage write can take: it returns at once, or the INSERT or the
\* commit stalls (store_snapshot sets no timeout on the storage handle).
WriteTimes == {0, 60}

\* A faulty variant of Batch: everything from offset i on is fetched at once
\* (C25 must tell the two apart).
BatchRest(tokens, i) == SubSeq(tokens, i + 1, Len(tokens))

\* run, line 161: tokens[i:i+BATCH_SIZE]
Batch(tokens, i) == SubSeq(tokens, i + 1, Min(i + OB_BATCH_SIZE, Len(tokens)))

\* A faulty variant of WaitTime: a full interval is slept after every cycle
\* (C28 must tell the two apart).
WaitTimeFull(elapsed) == POLL_INTERVAL

\* run, line 175: wait_time = max(0, POLL_INTERVAL - elapsed)
WaitTime(elapsed) == Max(0, POLL_INTERVAL - elapsed)

\* store_snapshot, lines 102-124: the row it inserts.
ObSnapshotRow(token_id, now, data) ==
    SnapshotRow([asset_id |-> token_id, timestamp |-> now,
                 bids |-> data.bids, asks |-> data.asks])

\* The state after OrderbookPoller() is constructed and the signal handlers are
\* installed; `answer` is what the market directory will say.
ObStart(answer) ==
    /\ ob_pc = "init"
    /\ ob_running = TRUE
    /\ ob_conn = "none"
    /\ ob_directory = answer
    /\ ob_tokens = <<>>
    /\ ob_i = 0
    /\ ob_batch = <<>>
    /\ ob_fetched = <<>>
    /\ ob_results = <<>>
    /\ ob_j = 0
    /\ ob_written = <<>>
    /\ ob_snapshots = <<>>
    /\ ob_stats = [snapshots |-> 0, errors |-> 0]
    /\ ob_now = 0
    /\ ob_cycle_start = 0
    /\ ob_cycles = 0
    /\ ob_faults = 0
    /\ ob_exit = "no"

ob_loop == <<ob_i, ob_batch, ob_fetched, ob_results, ob_j, ob_written>>

ob_data == <<ob_snapshots, ob_stats>>

ob_clock == <<ob_now, ob_cycle_start, ob_cycles>>

\* run, lines 140-150: open storage, select the targets, enter the polling loop.
ObStartup ==
    /\ ob_pc = "init"
    /\ ob_conn' = "open"
    /\ ob_tokens' = get_top_markets(ob_directory, OB_LIMIT)
    /\ IF ob_tokens' = <<>>
       THEN /\ ob_pc' = "exited"
            /\ ob_exit' = "no_tokens"
       ELSE /\ ob_pc' = "cycle"
            /\ ob_exit' = ob_exit
    /\ UNCHANGED <<ob_running, ob_directory, ob_loop, ob_data, ob_clock, ob_faults>>
    /\ UNCHANGED ob_others

\* run, lines 153-157: a polling cycle starts.
ObCycleStart ==
    /\ ob_pc = "cycle"
    /\ ob_running
    /\ ob_cycles < MaxCycles
    /\ ob_cycle_start' = ob_now
    /\ ob_cycles' = ob_cycles + 1
    /\ ob_i' = 0
    /\ ob_pc' = "batch"
    /\ UNCHANGED <<ob_running, ob_conn, ob_directory, ob_tokens, ob_batch, ob_fetched,
                   ob_results, ob_j, ob_written, ob_data, ob_now, ob_faults, ob_exit>>
    /\ UNCHANGED ob_others

\* The fetch outcomes of a batch of n targets with at most `budget` irregular ones.
BatchFetches(n, budget) ==
    {[k \in 1..n |-> RegularFetch]}
    \cup (IF budget >= 1
          THEN {[k \in 1..n |-> IF k = p THEN f ELSE RegularFetch] :
                    p \in 1..n, f \in IrregularFetches}
          ELSE {})
    \cup (IF budget >= 2
          THEN {[k \in 1..n |-> IF k = p THEN f ELSE IF k = q THEN g ELSE RegularFetch] :
                    p \in 1..n, q \in 1..n, f \in IrregularFetches, g \in IrregularFetches}
          ELSE {})

Irregular(fetched) == Cardinality({k \in 1..Len(fetched) : fetched[k] # RegularFetch})

\* run, lines 157-163: the next batch is cut, its fetches run concurrently and are
\* all awaited; the clock stands at the moment the gather returns.
ObFetchBatch ==
    /\ ob_pc = "batch"
    /\ ob_i < Len(ob_tokens)
    /\ ob_running
    /\ ob_batch' = Batch(ob_tokens, ob_i)
    /\ \E fetched \in BatchFetches(Len(ob_batch'), MaxFaults - ob_faults) :
         /\ ob_fetched' = fetched
         /\ ob_results' = Gather(fetched)
         /\ ob_now' = ob_now + GatherTime(fetched)
         /\ ob_faults' = ob_faults + Irregular(fetched)
    /\ ob_written' = [k \in 1..Len(ob_batch') |-> "no_call"]
    /\ ob_j' = 1
    /\ ob_pc' = "store"
    /\ UNCHANGED <<ob_running, ob_conn, ob_directory, ob_tokens, ob_i, ob_data,
                   ob_cycle_start, ob_cycles, ob_exit>>
    /\ UNCHANGED ob_others

\* run, lines 165-167, and store_snapshot: the next (target, result) pair.
\*   write "ok":    insert and commit succeed
\*   write "error": the insert or commit raises, the rollback succeeds
\* On a broken storage handle the insert raises and so does the rollback; nothing
\* in run catches that exception. The row carries the time read before the write
\* (line 112); a write that stalls is one of the irregular events of the run.
ObStoreResult ==
    /\ ob_pc = "store"
    /\ ob_j <= Len(ob_batch)
    /\ IF ~ShouldStore(ob_results[ob_j])
       THEN /\ ob_j' = ob_j + 1
            /\ UNCHANGED <<ob_pc, ob_written, ob_data, ob_faults, ob_exit, ob_now>>
       ELSE IF ob_conn = "broken"
       THEN /\ ob_pc' = "exited"
            /\ ob_exit' = "error"
            /\ ob_written' = [ob_written EXCEPT ![ob_j] = "error"]
            /\ UNCHANGED <<ob_j, ob_data, ob_faults, ob_now>>
       ELSE \/ \E took \in WriteTimes :
                 /\ took > 0 => ob_faults < MaxFaults
                 /\ ob_faults' = IF took > 0 THEN ob_faults + 1 ELSE ob_faults
                 /\ ob_now' = ob_now + took
                 /\ ob_snapshots' = Committed(ob_snapshots,
                        <<ObSnapshotRow(ob_batch[ob_j], ob_now, ob_results[ob_j][1])>>)
                 /\ ob_stats' = [ob_stats EXCEPT !.snapshots = @ + 1]
                 /\ ob_written' = [ob_written EXCEPT ![ob_j] = "stored"]
                 /\ ob_j' = ob_j + 1
                 /\ UNCHANGED <<ob_pc, ob_exit>>
            \/ /\ ob_faults < MaxFaults
               /\ ob_faults' = ob_faults + 1
               /\ ob_stats' = [ob_stats EXCEPT !.errors = @ + 1]
               /\ ob_written' = [ob_written EXCEPT ![ob_j] = "error"]
               /\ ob_j' = ob_j + 1
               /\ UNCHANGED <<ob_pc, ob_snapshots, ob_exit, ob_now>>
    /\ UNCHANGED <<ob_running, ob_conn, ob_directory, ob_tokens, ob_i, ob_batch,
                   ob_fetched, ob_results, ob_cycle_start, ob_cycles>>
    /\ UNCHANGED ob_others

\* run, line 169: the inter-batch delay, then the for loop steps on.
ObBatchSleep ==
    /\ ob_pc = "store"
    /\ ob_j > Len(ob_batch)
    /\ ob_now' = ob_now + BATCH_DELAY
    /\ ob_i' = ob_i + OB_BATCH_SIZE
    /\ ob_pc' = "batch"
    /\ UNCHANGED <<ob_running, ob_conn, ob_directory, ob_tokens, ob_batch, ob_fetched,
                   ob_results, ob_j, ob_written, ob_data, ob_cycle_start, ob_cycles,
                   ob_faults, ob_exit>>
    /\ UNCHANGED ob_others

\* run, lines 171-177: after the last batch, print the statistics and sleep what
\* is left of the interval.
ObCycleEnd ==
    /\ ob_pc = "batch"
    /\ ob_i >= Len(ob_tokens)
    /\ LET elapsed == ob_now - ob_cycle_start
           wait_time == WaitTime(elapsed)
       IN  ob_now' = IF wait_time > 0 /\ ob_running THEN ob_now + wait_time ELSE ob_now
    /\ ob_pc' = "cycle"
    /\ UNCHANGED <<ob_running, ob_conn, ob_directory, ob_tokens, ob_loop, ob_data,
                   ob_cycle_start, ob_cycles, ob_faults, ob_exit>>
    /\ UNCHANGED ob_others

\* signal_handler and stop, lines 179-192: SIGINT/SIGTERM at any point of the run;
\* the handler clears running, prints, closes the storage handle and raises
\* SystemExit.
ObStop ==
    /\ ob_pc # "exited"
    /\ ob_running' = FALSE
    /\ ob_conn' = IF ob_conn = "none" THEN "none" ELSE "closed"
    /\ ob_pc' = "exited"
    /\ ob_exit' = "stop"
    /\ UNCHANGED <<ob_directory, ob_tokens, ob_loop, ob_data, ob_clock, ob_faults>>
    /\ UNCHANGED ob_others

\* The storage server goes away: the handle is unusable from now on.
ObStorageLost ==
    /\ ob_pc \notin {"init", "exited"}
    /\ ob_conn = "open"
    /\ ob_faults < MaxFaults
    /\ ob_faults' = ob_faults + 1
    /\ ob_conn' = "broken"
    /\ UNCHANGED <<ob_pc, ob_running, ob_directory, ob_tokens, ob_loop, ob_data,
                   ob_clock, ob_exit>>
    /\ UNCHANGED ob_others

ObNext ==
    \/ ObStartup \/ ObCycleStart \/ ObFetchBatch \/ ObStoreResult \/ ObBatchSleep
    \/ ObCycleEnd \/ ObStop \/ ObStorageLost

\* The target selection alone.
ObSelectNext == ObStartup

-----------------------------------------------------------------------------
(* Specifications *)

\* The programs a specification does not run stay in their start state.
InitEx ==
    \E remote \in RemoteTotals :
        \E stored \in {0} \cup {t \in RemoteTotals : t <= remote} :
            ExStart(remote, stored) /\ WsStart(Answer(FALSE, <<>>)) /\ ObStart(Answer(FALSE, <<>>))

InitWs ==
    \E answer \in WsDirectoryAnswers :
        WsStart(answer) /\ ExStart(0, 0) /\ ObStart(Answer(FALSE, <<>>))

InitOb ==
    \E answer \in ObRunAnswers :
        ObStart(answer) /\ ExStart(0, 0) /\ WsStart(Answer(FALSE, <<>>))

InitObSelect ==
    \E markets \in SeqsUpTo(ObMarketDomain, MaxMarkets) \cup ObFullAnswers :
        ObStart(Answer(TRUE, Numbered(markets))) /\ ExStart(0, 0) /\ WsStart(Answer(FALSE, <<>>))

InitExInsert ==
    \E db \in InsertStores :
        \E trades \in InsertPages :
            ExAtInsert(db, trades) /\ WsStart(Answer(FALSE, <<>>)) /\ ObStart(Answer(FALSE, <<>>))

SpecEx == InitEx /\ [][ExNext]_vars

\* Every step of the paging loop returns: the requests have a timeout, the sleeps
\* end, the insert ends.
SpecExFair == SpecEx /\ WF_vars(ExPageStart \/ ExPageAttempt \/ ExInsert)

SpecExInsert == InitExInsert /\ [][ExInsertNext]_vars

SpecWs == InitWs /\ [][WsNext]_vars

\* asyncio.sleep returns, a connect attempt ends (it has a timeout), a subscription
\* send and a store call return: the steps of run() that do not wait for the feed.
SpecWsFair ==
    /\ SpecWs
    /\ WF_vars(WsBackoff) /\ WF_vars(WsConnect) /\ WF_vars(WsSubscribe)
    /\ WF_vars(WsProcessEvent) /\ WF_vars(WsCommit)

SpecOb == InitOb /\ [][ObNext]_vars

SpecObSelect == InitObSelect /\ [][ObSelectNext]_vars

-----------------------------------------------------------------------------
(* Bulk Extractor: properties *)

\* The page sizes a run over `rem` missing records sees when every request is
\* answered: the full and the partial pages in order, then the empty page.
ExpectedPages(rem) ==
    LET k == CeilDiv(rem, BATCH_SIZE)
    IN  [j \in 1..(k + 1) |-> IF j <= k THEN Min(BATCH_SIZE, rem - (j - 1) * BATCH_SIZE) ELSE 0]

\* The run has ended without an exception (printed "Database is up to date!", or
\* "Extraction Complete!" and the statistics after it).
ExEndedNormally == ex_pc \in {"up_to_date", "complete"} /\ ex_exit = "ok"

\* C2: a run that starts with local maximum id X against a static remote inserts
\* only ids > X, and ends with the local row count equal to the remote total.
C2_ResumeReachesRemoteTotal ==
    /\ \A row \in ex_db \ ex_db0 : row.id > get_last_trade_id(ex_db0)
    /\ ExEndedNormally => get_trade_count(ex_db) = ex_remote

\* C3 (as claimed): from an empty store the number of page requests is
\* ceil(total / page_size); for 2500 records they return 1000, 1000 and 500.
C3_Claimed_CeilRequests ==
    (ex_pc = "complete" /\ ex_page_failed = "no" /\ ex_db0 = {}) =>
        /\ Len(ex_requests) = CeilDiv(ex_remote, BATCH_SIZE)
        /\ ex_remote = 2500 => ex_requests = <<1000, 1000, 500>>

\* C3 (amended): the loop ends only on a page request that returns no records, so
\* a completed run has issued one request more than it received non-empty pages;
\* when every page request is answered that is ceil(missing / page_size) + 1
\* requests, the non-empty pages in order and then the empty page, and every
\* remote record is stored. For 2500 records and an empty store: 4 requests,
\* returning 1000, 1000, 500 and 0, and 2500 stored records.
C3_CeilPlusOneRequests ==
    ex_pc = "complete" =>
        /\ ex_requests # <<>>
        /\ \A k \in 1..Len(ex_requests) : (ex_requests[k] = 0) <=> (k = Len(ex_requests))
        /\ ex_page_failed = "no" =>
              /\ ex_requests = ExpectedPages(ex_remote - Cardinality(ex_db0))
              /\ Len(ex_requests) = CeilDiv(ex_remote - Cardinality(ex_db0), BATCH_SIZE) + 1
              /\ get_trade_count(ex_db) = ex_remote
        /\ (ex_page_failed = "no" /\ ex_remote = 2500 /\ ex_db0 = {}) =>
              ex_requests = <<1000, 1000, 500, 0>>

C3_Witness ==
    /\ ex_pc = "complete"
    /\ ex_page_failed = "no"
    /\ ex_remote = 2500
    /\ ex_db0 = {}
    /\ ex_requests = <<1000, 1000, 500, 0>>
    /\ get_trade_count(ex_db) = 2500

\* C8: when the retries of a page request are exhausted the run does not end as
\* a normal completion (the failure is not taken for the empty page).
C8_ExhaustionIsNotCompletion ==
    ex_page_failed = "exception" => ex_pc # "complete"

\* C9: a page request is attempted at most 3 times; a failed attempt (transport
\* error or API error response) is retried until the 3 attempts are used, so a
\* page request that gave no data has used all 3; the waits between consecutive
\* attempts are 1s, then 2s.
C9_EveryFailureRetried ==
    ex_batch_num >= 1 =>
        /\ Len(ex_outcomes) <= RETRY_ATTEMPTS
        /\ ex_qvalue = "None" => Len(ex_outcomes) = RETRY_ATTEMPTS
        /\ \A k \in 1..(Len(ex_outcomes) - 1) : ex_sleeps[k] = Pow2(k - 1)

\* C16: a run that starts with at least as many local rows as the remote holds
\* records ends as "up to date" right after the two counts are taken: it issues no
\* page request and writes nothing.
C16_UpToDateExitsAtOnce ==
    (get_trade_count(ex_db0) >= ex_remote /\ ex_pc \notin {"begin", "total_query"}) =>
        /\ ex_pc = "up_to_date"
        /\ ex_requests = <<>>
        /\ ex_batch_num = 0
        /\ ex_db = ex_db0
        /\ ex_total_inserted = 0

\* The local store holds all 1000 records of the remote and the total was read.
C16_Witness ==
    /\ ex_pc = "up_to_date"
    /\ ex_remote = 1000
    /\ get_trade_count(ex_db0) = 1000
    /\ ex_qvalue = "data"
    /\ ex_total_trades = 1000
    /\ ex_requests = <<>>

\* The rows of the table `db` with the id `id`.
RowsOf(db, id) == {row \in db : row.id = id}

\* C17: the insert of a non-empty page either commits as a whole or not at all.
\* When it commits, every row stored before is still there unchanged, every id of
\* the page is stored in exactly one row (a record whose id was stored is
\* ignored), nothing else is added, and the cursor is the id of the last record
\* of the page. When it does not commit, the table and the cursor are unchanged.
C17_PageInsertIdempotent ==
    [][ex_pc = "insert" =>
          \/ /\ ex_pc' = "page_start"
             /\ ex_db \subseteq ex_db'
             /\ \A k \in 1..Len(ex_trades) :
                   /\ Cardinality(RowsOf(ex_db', ex_trades[k].id)) = 1
                   /\ RowsOf(ex_db, ex_trades[k].id) = {} => ex_trades[k] \in ex_db'
             /\ \A row \in ex_db' \ ex_db : \E k \in 1..Len(ex_trades) : row = ex_trades[k]
             /\ ex_last_id' = ex_trades[Len(ex_trades)].id
          \/ /\ ex_pc' = "crashed"
             /\ ex_db' = ex_db
             /\ ex_last_id' = ex_last_id]_vars

\* A page of three records was committed into a table that held the second of
\* them with another content: that row is as it was, the two others were added.
C17_Witness ==
    /\ ex_pc = "page_start"
    /\ ex_db0 = {OtherFill(2)}
    /\ Len(ex_trades) = 3
    /\ ex_db = {RemoteFill(1), OtherFill(2), RemoteFill(3)}
    /\ ex_last_id = 3

\* C18: against a remote that does not grow the paging loop terminates. A run
\* that has entered the loop comes to its end (or is ended by a storage error of
\* an insert); it issues at most one page request more than the missing records
\* fill pages; and it ends normally on an empty page, received by the last
\* request of the run.
C18_PagingTerminates ==
    /\ (ex_pc = "page_start") ~> (ex_pc \in {"complete", "crashed"})
    /\ [](Len(ex_requests) <= CeilDiv(ex_remote - get_trade_count(ex_db0), BATCH_SIZE) + 1)
    /\ [](ex_pc = "complete" =>
             /\ ex_trades = <<>>
             /\ ex_requests[Len(ex_requests)] = 0
             /\ ex_batch_num = Len(ex_requests))

\* Every request of the run was answered; the third one, at the end of the two
\* pages of the remote, brought the empty page.
C18_Witness ==
    /\ ex_pc = "complete"
    /\ ex_page_failed = "no"
    /\ ex_remote = 2000
    /\ ex_db0 = {}
    /\ ex_requests = <<1000, 1000, 0>>
    /\ get_trade_count(ex_db) = 2000

\* C31: the progress reporting does not steer the run: the clock readings decide
\* neither whether the paging loop goes on nor how main ends. A run is never
\* ended by the arithmetic of a progress update, and a run whose loop has ended
\* ends the way it would have ended on any other reading of the clock.
C31_ClockDoesNotSteer ==
    /\ ex_pc = "crashed" => ex_exit = "psycopg2.Error"
    /\ ex_pc = "complete" =>
          \A elapsed \in ElapsedTimes : FinalStats(ex_total_inserted, elapsed) = ex_exit

\* C33: in a run that starts from a store holding a prefix of the remote (the
\* empty one included), at every point, also after the run was ended by a failed
\* insert, the store holds the first n records of the remote in id order, for some
\* n (the stored ids are 1..n, the remote's ids being numbered in their order),
\* each with the remote's content; so every record that is not stored has an id
\* above the maximum stored id n, and a resume from that id misses none; inside
\* the paging loop and at its end the cursor is that maximum.
C33_StoredIdsGapFreePrefix ==
    LET n == get_trade_count(ex_db)
    IN  /\ {row.id : row \in ex_db} = 1..n
        /\ \A row \in ex_db : row = RemoteFill(row.id)
        /\ n <= ex_remote
        /\ ex_pc \in {"page_start", "page_query", "insert", "complete", "crashed"} =>
              ex_last_id = n

\* A resumed run was ended by a failed insert after it had stored one page: the
\* store holds the records 1..1500 of 2500.
C33_Witness ==
    /\ ex_pc = "crashed"
    /\ ex_exit = "psycopg2.Error"
    /\ ex_remote = 2500
    /\ get_trade_count(ex_db0) = 500
    /\ get_trade_count(ex_db) = 1500
    /\ ex_last_id = 1500

\* C34: in a run, every record of a fetched page has an id above every id the
\* store holds when the page is inserted, so no record of a page is ignored as a
\* duplicate: the insert of a page adds as many rows as the page has records, and
\* the counter of the records inserted in this run is at every point the number of
\* rows added since the start.
C34_NoDuplicateInRun ==
    /\ [](ex_pc = "insert" =>
             /\ ex_trades # <<>>
             /\ \A row \in ex_db : row.id < ex_trades[1].id
             /\ \A k \in 1..(Len(ex_trades) - 1) : ex_trades[k].id < ex_trades[k + 1].id)
    /\ [](ex_total_inserted = get_trade_count(ex_db) - get_trade_count(ex_db0))
    /\ [][(ex_pc = "insert" /\ ex_pc' = "page_start") =>
             /\ get_trade_count(ex_db') = get_trade_count(ex_db) + Len(ex_trades)
             /\ ex_total_inserted' = ex_total_inserted + Len(ex_trades)]_vars

\* A run resumed on the first 500 of 2500 records came to its end: 2000 records
\* counted as inserted, 2000 rows added.
C34_Witness ==
    /\ ex_pc = "complete"
    /\ ex_remote = 2500
    /\ get_trade_count(ex_db0) = 500
    /\ get_trade_count(ex_db) = 2500
    /\ ex_total_inserted = 2000
    /\ ex_requests = <<1000, 1000, 0>>

\* C35: when the total-count query fails (three attempts that raised, or an API
\* error response) the extractor takes the remote total for 0, reports the store
\* as up to date and ends there, whatever the local count is: no page request, no
\* insert, and no step after it.
C35_FailedTotalMeansUpToDate ==
    /\ [][(ex_pc = "total_query" /\ ex_pc' # "total_query" /\ ex_qvalue' = "None") =>
             /\ ex_total_trades' = 0
             /\ ex_pc' = "up_to_date"
             /\ ex_exit' = "ok"
             /\ ex_requests' = <<>> /\ ex_batch_num' = 0
             /\ ex_db' = ex_db0 /\ ex_total_inserted' = 0]_vars
    /\ [][ex_pc # "up_to_date"]_vars

\* The store holds 500 of the 2500 records of the remote; the total query was
\* answered by an API error and the run ended as up to date.
C35_Witness ==
    /\ ex_pc = "up_to_date"
    /\ ex_qvalue = "None"
    /\ ex_outcomes = <<"errors">>
    /\ ex_total_trades = 0
    /\ ex_remote = 2500
    /\ get_trade_count(ex_db) = 500
    /\ ex_requests = <<>>

-----------------------------------------------------------------------------
(* Stream Collector: properties *)

\* C1: storing the same (token, timestamp) book snapshot or trade twice leaves one
\* stored row for that key.
C1_OneRowPerKey ==
    /\ \A i, j \in 1..Len(ws_realtime_trades) :
          (/\ ws_realtime_trades[i].token_id = ws_realtime_trades[j].token_id
           /\ ws_realtime_trades[i].timestamp = ws_realtime_trades[j].timestamp) => i = j
    /\ \A i, j \in 1..Len(ws_orderbook_snapshots) :
          (/\ ws_orderbook_snapshots[i].token_id = ws_orderbook_snapshots[j].token_id
           /\ ws_orderbook_snapshots[i].timestamp = ws_orderbook_snapshots[j].timestamp) => i = j

\* A wait has just been taken: the collector is about to make the connect attempt
\* that follows ws_fails consecutive failed ones.
WsJustWaited == ws_pc = "connecting" /\ ws_last_wait > 0

\* C4 (as claimed): after N consecutive failed connect attempts the wait before
\* attempt N+1 is min(1s * 2^N, 60s); after a successful connect the next wait is
\* 1s; the delay never exceeds 60s.
C4_Claimed_BackoffLaw ==
    /\ ws_reconnect_delay <= 60
    /\ WsJustWaited => ws_last_wait = Min(Pow2(ws_fails), 60)

\* C4 (amended): the wait before attempt N+1 is min(1s * 2^N, 60s) when a connect
\* has succeeded earlier in the run (N counted from the loss of that connection),
\* and min(1s * 2^(N-1), 60s) while no connect has succeeded since the start;
\* after a successful connect the next wait is 1s; the delay never exceeds 60s.
C4_BackoffLaw ==
    /\ ws_reconnect_delay <= 60
    /\ WsJustWaited =>
          ws_last_wait = Min(Pow2(IF ws_connected_before THEN ws_fails ELSE ws_fails - 1), 60)
    /\ (WsJustWaited /\ ws_fails = 0) => ws_last_wait = 1

C4_Witness ==
    /\ WsJustWaited
    /\ ~ws_connected_before
    /\ ws_fails = 7
    /\ ws_last_wait = 60

RECURSIVE ExpectedCalls(_)
ExpectedCalls(items) ==
    IF items = <<>> THEN <<>>
    ELSE (IF Handler(Head(items)) = "none" THEN <<>> ELSE <<Handler(Head(items))>>)
         \o ExpectedCalls(Tail(items))

\* C7: when a message has been handled, every element of it has been routed to
\* the handler of its event_type, in array order; the array [book,
\* last_trade_price, price_change] has caused exactly the three store calls.
C7_DispatchInArrayOrder ==
    (ws_pc = "streaming" /\ ws_message.json \in {"object", "array"}) =>
        /\ ws_calls = ExpectedCalls(ws_message.items)
        /\ ws_message.items = <<BookEvent, TradeEvent, PriceChangeEvent>> =>
              ws_calls = <<"store_book_snapshot", "store_trade", "store_price_change">>

\* C10: once in the connect loop, run() ends only on an external stop, and after
\* every transport failure the collector comes to another connect attempt (or is
\* stopped).
C10_TransportFailureNeverEndsLoop ==
    /\ []((ws_pc = "exited" /\ ws_reconnect_delay > 0) => ws_exit = "stop")
    /\ (ws_pc = "reconnecting") ~> (ws_pc \in {"connecting", "exited"})

C10_Witness ==
    /\ WsJustWaited
    /\ ws_connected_before
    /\ ws_fails >= 1

\* A step in which a store call ends with a failed write: the INSERT or the commit
\* raised, nothing of the event is stored and no transaction stays open.
WsWriteFailedStep ==
    /\ ws_pc \in {"handling", "committing"}
    /\ ws_pc' # "exited"
    /\ ws_conn' = ws_conn
    /\ ws_pc = "handling" => Len(ws_calls') = Len(ws_calls) + 1
    /\ ws_tx' = <<>>
    /\ ws_data' = ws_data

\* C11: a storage write failure drops the record of that event only and does not
\* halt the receive loop: no row and no counter changes, the collector stays on
\* its connection (no reconnect, no new subscription, no change of the backoff
\* delay), and when the write was rolled back the elements after the failed one
\* are still to be dispatched; the loop is back at receive when none is left.
C11_WriteFailureDropsOneRecord ==
    [][WsWriteFailedStep =>
          /\ ws_pc' \in {"handling", "streaming"}
          /\ (ws_pc' = "streaming") <=> (ws_items' = <<>>)
          /\ ws_conn = "open" => ws_items' = Tail(ws_items)
          /\ UNCHANGED <<ws_sub, ws_reconnect_delay, ws_running, ws_exit>>]_vars

\* The write of the book element failed; the trade and the price change after it
\* in the same array were stored.
C11_Witness ==
    /\ ws_pc = "streaming"
    /\ ws_conn = "open"
    /\ ws_message.items = <<BookEvent, TradeEvent, PriceChangeEvent>>
    /\ ws_calls = <<"store_book_snapshot", "store_trade", "store_price_change">>
    /\ ws_orderbook_snapshots = <<>>
    /\ ws_realtime_trades = <<TradeRow(TradeEvent)>>
    /\ ws_price_changes = PriceChangeRows(PriceChangeEvent)

RECURSIVE Flatten(_)
Flatten(batches) ==
    IF batches = <<>> THEN <<>> ELSE Head(batches) \o Flatten(Tail(batches))

\* The requests sent on the open connection are the target list cut into
\* consecutive batches of at most 50 tokens, one request per batch.
WsSubscriptionComplete ==
    /\ Flatten(ws_sent) = ws_tokens
    /\ Len(ws_sent) = CeilDiv(Len(ws_tokens), 50)
    /\ \A k \in 1..Len(ws_sent) :
          Len(ws_sent[k]) = IF k < Len(ws_sent) THEN 50 ELSE Len(ws_tokens) - 50 * (k - 1)

\* C12: on every connection, the first as well as a later one, the collector
\* receives and handles messages only after it has sent on that connection the
\* subscription requests for the whole target list, in consecutive batches of at
\* most 50 tokens, one request per batch.
C12_ResubscribeBeforeMessages ==
    /\ [](ws_pc \in {"streaming", "handling", "committing"} => WsSubscriptionComplete)
    /\ [][ws_msg' # ws_msg => WsSubscriptionComplete]_vars
    /\ [][(ws_pc = "connecting" /\ ws_pc' = "subscribing") => ws_sent' = <<>>]_vars

\* Streaming on a connection that is not the first, with 52 targets.
C12_Witness ==
    /\ ws_pc = "streaming"
    /\ ws_reconnected
    /\ Len(ws_tokens) = 52
    /\ Len(ws_sent) = 2
    /\ Len(ws_sent[1]) = 50
    /\ Len(ws_sent[2]) = 2

\* C13: when the receive window ends without a message the collector sends a
\* ping on the connection it has and stays in the receive loop: nothing else
\* changes (no reconnect, no new subscription, no change of the backoff delay);
\* the collector leaves a connection for a reconnect only from a transport
\* operation (connect, send, recv, ping), and never with the ping delivered.
C13_TimeoutSendsProbeOnly ==
    /\ [][(~ws_pinged /\ ws_pinged') =>
             /\ ws_pc = "streaming"
             /\ ws_pc' = "streaming"
             /\ UNCHANGED <<ws_running, ws_conn, ws_directory, ws_tokens, ws_sub,
                            ws_reconnect_delay, ws_data, ws_msg, ws_hist, ws_exit>>]_vars
    /\ [][(ws_pc # "reconnecting" /\ ws_pc' = "reconnecting") =>
             /\ ws_pc \in {"connecting", "subscribing", "streaming"}
             /\ ~ws_pinged']_vars
    /\ [](ws_pinged => (ws_pc \in {"streaming", "exited"} /\ WsSubscriptionComplete))

\* A ping was sent on the first connection of the run after a message was handled.
C13_Witness ==
    /\ ws_pc = "streaming"
    /\ ws_pinged
    /\ ~ws_reconnected
    /\ ws_reconnect_delay = 1
    /\ ws_message # NoMessage
    /\ ws_realtime_trades # <<>>

\* C15: the shutdown acts between iterations only: when the storage handle is
\* closed and the collector exits, no write is under way (no transaction holds rows
\* that were inserted and neither committed nor rolled back by the store call).
C15_NoStopMidWrite ==
    (ws_exit = "stop" \/ ws_conn = "closed") => ws_tx = <<>>

\* The element is an object whose event_type is one of the three known kinds.
Recognized(data) ==
    data.is_dict /\ data.event_type \in {"book", "last_trade_price", "price_change"}

\* C19: dispatching an element that is not an object, has no event_type or has
\* one of another kind makes no store call, changes no row and no counter, raises
\* nothing, and leaves the elements after it to be dispatched.
C19_UnknownEventsDropped ==
    [][(/\ ws_pc = "handling"
        /\ ~Recognized(Head(ws_items))
        /\ ws_pc' # "exited"
        /\ ws_conn' = ws_conn) =>
          /\ ws_calls' = ws_calls
          /\ ws_data' = ws_data
          /\ ws_tx' = <<>>
          /\ ws_items' = Tail(ws_items)
          /\ ws_pc' = IF ws_items' = <<>> THEN "streaming" ELSE "handling"
          /\ UNCHANGED <<ws_exit, ws_running, ws_sub, ws_reconnect_delay>>]_vars

\* The array [unknown kind, no event_type, not an object, trade] has been handled:
\* one store call, for the trade, which is stored.
C19_Witness ==
    /\ ws_pc = "streaming"
    /\ ws_message.items = <<UnknownEvent, UntypedEvent, NonObject, TradeEvent>>
    /\ ws_calls = <<"store_trade">>
    /\ ws_realtime_trades = <<TradeRow(TradeEvent)>>
    /\ ws_stats = [books |-> 0, price_changes |-> 0, trades |-> 1]

\* C20: every stored trade has a price strictly between 0 and 1 (1..99 cents), and
\* so have the best bid and the best ask of every stored book snapshot that has
\* them; a trade without a price or with one outside that range is not stored.
C20_StoredPricesInUnitInterval ==
    /\ \A k \in 1..Len(ws_realtime_trades) :
          ws_realtime_trades[k].price > 0 /\ ws_realtime_trades[k].price < 100
    /\ \A k \in 1..Len(ws_orderbook_snapshots) :
          /\ ws_orderbook_snapshots[k].best_bid # None =>
                (ws_orderbook_snapshots[k].best_bid[1] > 0 /\ ws_orderbook_snapshots[k].best_bid[1] < 100)
          /\ ws_orderbook_snapshots[k].best_ask # None =>
                (ws_orderbook_snapshots[k].best_ask[1] > 0 /\ ws_orderbook_snapshots[k].best_ask[1] < 100)

\* `old` is the beginning of `new`: every row of `old` is in `new`, unchanged and
\* at its place.
IsPrefix(old, new) == Len(old) <= Len(new) /\ SubSeq(new, 1, Len(old)) = old

WsRowsLostStep ==
    /\ WsWriteFailedStep
    /\ StoreRows(Handler(Head(ws_items)), Head(ws_items)) # <<>>

\* C22: on a storage failure the collector rolls back the failed write, counts
\* the error and goes on with the next record: the step of a failed write makes
\* one of the collector's counters grow and leaves the elements after the failed
\* one to be dispatched.
C22_FailureCountedThenContinue ==
    [][WsRowsLostStep =>
          /\ \E c \in DOMAIN ws_stats : ws_stats'[c] > ws_stats[c]
          /\ ws_items' = Tail(ws_items)]_vars

\* C23: the backoff delay goes back to its base exactly when the collector enters
\* Streaming, the connection made and every subscription batch sent; no other step
\* of the connect loop lowers it.
C23_ResetOnStreamingEntry ==
    [][(ws_pc # "init" /\ ws_reconnect_delay' < ws_reconnect_delay) =>
          /\ ws_reconnect_delay' = WS_BASE_DELAY
          /\ ws_pc = "subscribing"
          /\ ws_pc' = "streaming"]_vars

\* C24: the elements of an array message are dispatched independently: however
\* the processing of an element ends (passed over, stored, write failed and rolled
\* back, rollback failed on a broken storage handle), the elements after it are
\* still to be dispatched.
C24_LaterElementsStillDispatched ==
    [][(/\ ws_pc \in {"handling", "committing"}
        /\ ws_pc' \in {"handling", "streaming"}
        /\ ws_conn' = ws_conn) =>
          /\ ws_items' = Tail(ws_items)
          /\ (ws_pc' = "streaming") <=> (ws_items' = <<>>)]_vars

C30_OneConnectionOneMessage ==
    /\ [](/\ ws_pc \in {"init", "connecting", "subscribing", "streaming", "reconnecting"} =>
                ws_items = <<>> /\ ws_tx = <<>>
          /\ ws_pc = "handling" => ws_items # <<>> /\ ws_tx = <<>>
          /\ ws_pc = "committing" => ws_items # <<>> /\ ws_tx # <<>>)
    /\ [][/\ (ws_message' # ws_message \/ (ws_pc = "streaming" /\ ws_pc' = "handling")) =>
                /\ ws_pc = "streaming"
                /\ ws_items = <<>> /\ ws_tx = <<>>
                /\ ws_items' = ws_message'.items
                /\ ws_calls' = <<>>
          /\ (ws_pc' = "subscribing" /\ ws_pc # "subscribing") => ws_pc = "connecting"
          /\ (ws_pc' = "connecting" /\ ws_pc # "connecting") =>
                ws_pc \in {"init", "reconnecting"}
          /\ (ws_pc' = "reconnecting" /\ ws_pc # "reconnecting") =>
                ws_pc \in {"connecting", "subscribing", "streaming"}]_vars

\* The store call of a second message is under way; the row of the message before
\* it is stored.
C30_Witness ==
    /\ ws_pc = "committing"
    /\ ws_message = Message("object", <<LaterTradeEvent>>)
    /\ ws_tx = <<TradeRow(LaterTradeEvent)>>
    /\ ws_realtime_trades = <<TradeRow(TradeEvent)>>
    /\ ws_stats.trades = 1

\* The directory's answer resolves no instrument: the request failed, or no
\* market of the answer carries a token list that parses and holds a token.
WsUnresolved ==
    \/ ~ws_directory.ok
    \/ \A k \in 1..Len(ws_directory.markets) :
          LET m == ws_directory.markets[k]
          IN  ~m.has_ids \/ ~m.ids_parse \/ m.ids = <<>>

ObUnresolved ==
    \/ ~ob_directory.ok
    \/ ob_tokens = <<>>

C36_SubscribedOnThisConnection ==
    ws_pc \in {"subscribing", "streaming", "handling", "committing"} =>
        \A token \in ws_subscribed :
            \E b \in 1..Len(ws_sent) : \E k \in 1..Len(ws_sent[b]) : ws_sent[b][k] = token

-----------------------------------------------------------------------------
(* Stream Collector: storing a price_change *)

\* The collector is in store_price_change for the element at the head of the
\* message: dispatching it, or between its INSERT and its commit.
WsInStorePriceChange ==
    /\ ws_pc \in {"handling", "committing"}
    /\ ws_items # <<>>
    /\ Handler(Head(ws_items)) = "store_price_change"

\* C37: a price_change event carrying k deltas is stored all-or-nothing. Every
\* step of store_price_change leaves the price_changes table and the
\* price-change counter as they were, or appends the rows of all k deltas at
\* once and raises the counter by k; the open transaction holds all k rows or
\* none; an event with a malformed delta and an event without deltas open no
\* transaction and store nothing.
C37_PriceChangeAllOrNothing ==
    [][WsInStorePriceChange =>
          LET data == Head(ws_items)
              k == Len(data.price_changes)
              added == Len(ws_price_changes') - Len(ws_price_changes)
          IN  /\ IsPrefix(ws_price_changes, ws_price_changes')
              /\ added \in {0, k}
              /\ ws_stats'.price_changes = ws_stats.price_changes + added
              /\ added = k => ws_price_changes' = ws_price_changes \o PriceChangeRows(data)
              /\ ws_tx' \in {<<>>, ws_tx, PriceChangeRows(data)}
              /\ (k = 0 \/ PriceChangeRaises(data)) =>
                    added = 0 /\ ws_tx' = <<>> /\ ws_pc' # "committing"]_vars

\* An array of two price_change events went through store_price_change: the
\* first, whose second delta is malformed, left nothing behind; the second, of
\* two deltas, was stored whole and counted twice.
C37_Witness ==
    /\ ws_pc = "streaming"
    /\ ws_message.items = <<MalformedPriceChangeEvent, PriceChangeEvent>>
    /\ ws_items = <<>>
    /\ ws_calls = <<"store_price_change", "store_price_change">>
    /\ ws_price_changes = PriceChangeRows(PriceChangeEvent)
    /\ ws_stats.price_changes = 2

------------------------------------------------------------------------------
(* Snapshot Poller: properties *)

ObBatchStored == ob_pc = "store" /\ ob_j > Len(ob_batch)

\* The target has a row whose capture time is `since` or later.
ObHasRow(token_id, since) ==
    \E r \in 1..Len(ob_snapshots) :
        ob_snapshots[r].token_id = token_id /\ ob_snapshots[r].timestamp >= since

\* C5: when the results of a batch have been handled, every target whose fetch
\* succeeded (and whose write did not fail) has its snapshot stored, whatever
\* happened to the fetches of the other targets of the batch.
C5_BatchIsolation ==
    ObBatchStored =>
        \A k \in 1..Len(ob_batch) :
            (ob_fetched[k].kind = "ok" /\ ob_written[k] # "error") =>
                ob_written[k] = "stored" /\ ObHasRow(ob_batch[k], ob_cycle_start)

C5_Witness ==
    /\ ObBatchStored
    /\ Len(ob_batch) = OB_BATCH_SIZE
    /\ \E k \in 1..Len(ob_batch) :
          /\ ob_fetched[k].kind \in {"timeout", "error"}
          /\ \A o \in 1..Len(ob_batch) : o # k => ObHasRow(ob_batch[o], ob_cycle_start)

\* The markets of the answer that carry a best bid, a best ask and a token.
ObPriced ==
    {k \in 1..Len(ob_directory.markets) :
        LET m == ob_directory.markets[k]
        IN  m.bestBid.kind = "num" /\ m.bestAsk.kind = "num" /\ m.bestAsk.v # 0
            /\ FirstToken(m) # <<>>}

ObSelected(k) == \E t \in 1..Len(ob_tokens) : ob_tokens[t] = ob_directory.markets[k].ids[1]

ObSelectionDone == ob_pc # "init" /\ ob_directory.ok /\ Len(ob_tokens) < OB_LIMIT

\* C6 (as claimed): an instrument is kept only if its mid price lies strictly
\* between 0.10 and 0.90; mid exactly 0.10 or 0.90 is excluded.
C6_Claimed_StrictBounds ==
    ObSelectionDone =>
        \A k \in ObPriced :
            LET m == ob_directory.markets[k]
            IN  ObSelected(k) <=> (/\ m.bestBid.v + m.bestAsk.v > 2 * 10
                                   /\ m.bestBid.v + m.bestAsk.v < 2 * 90)

\* C6 (amended): an instrument is kept only if its mid price lies between 0.10
\* and 0.90, the bounds included: mid 0.05 and 0.95 are excluded, 0.50 is
\* included, and mid exactly 0.10 or exactly 0.90 is included.
C6_InclusiveBounds ==
    ObSelectionDone =>
        \A k \in ObPriced :
            LET m == ob_directory.markets[k]
            IN  ObSelected(k) <=> (/\ m.bestBid.v + m.bestAsk.v >= 2 * 10
                                   /\ m.bestBid.v + m.bestAsk.v <= 2 * 90)

C6_Witness ==
    /\ ObSelectionDone
    /\ \E k \in ObPriced :
          /\ ob_directory.markets[k].bestBid.v = 10
          /\ ob_directory.markets[k].bestAsk.v = 10
          /\ ObSelected(k)
    /\ \E k \in ObPriced :
          /\ ob_directory.markets[k].bestBid.v = 90
          /\ ob_directory.markets[k].bestAsk.v = 100
          /\ ~ObSelected(k)

\* A step in which the fetches of a batch are started and gathered.
ObFetchStep == ob_pc = "batch" /\ ob_pc' = "store"

\* C25: at most one batch of at most 20 fetches is in flight. Fetches are started
\* only by the step that cuts a batch; the batch after it is cut only when every
\* result of this one has been handled (stored, or passed over as failed) and the
\* inter-batch delay has been slept after that.
C25_OneBatchInFlight ==
    [][/\ (ob_batch' # ob_batch \/ ob_fetched' # ob_fetched \/ ob_results' # ob_results) =>
             ObFetchStep
       /\ ObFetchStep =>
             /\ Len(ob_batch') \in 1..OB_BATCH_SIZE
             /\ Len(ob_fetched') = Len(ob_batch')
             /\ Len(ob_results') = Len(ob_batch')
             /\ ob_batch # <<>> => ob_j > Len(ob_batch)
             /\ \A k \in 1..Len(ob_batch) :
                   ShouldStore(ob_results[k]) => ob_written[k] # "no_call"
       /\ (ob_pc' = "batch" /\ ob_pc # "batch") =>
             \/ ob_pc = "cycle" /\ ob_i' = 0 /\ ob_now' = ob_now
             \/ /\ ob_pc = "store"
                /\ ob_j > Len(ob_batch)
                /\ ob_i' = ob_i + OB_BATCH_SIZE
                /\ ob_now' = ob_now + BATCH_DELAY
       /\ ob_i' # ob_i => (ob_pc' = "batch" /\ ob_pc # "batch")]_vars

\* The second batch of a cycle is in flight: the twenty targets of the first have
\* their rows, and the delay has been slept.
C25_Witness ==
    /\ ob_pc = "store"
    /\ ob_i = OB_BATCH_SIZE
    /\ Len(ob_batch) = 1
    /\ ob_batch[1] = ob_tokens[OB_BATCH_SIZE + 1]
    /\ Len(ob_snapshots) = OB_BATCH_SIZE
    /\ ob_now = BATCH_DELAY

\* The rows of a target whose capture time is `since` or later.
ObRowsSince(token_id, since) ==
    Cardinality({r \in 1..Len(ob_snapshots) :
                    ob_snapshots[r].token_id = token_id /\ ob_snapshots[r].timestamp >= since})

C27_SpreadWheneverTwoSided ==
    \A r \in 1..Len(ob_snapshots) :
        LET row == ob_snapshots[r]
        IN  /\ (row.bids # <<>> /\ row.asks # <<>>) =>
                  row.spread = Some(row.asks[1].price - row.bids[1].price)
            /\ (row.bids = <<>> \/ row.asks = <<>>) => row.spread = None

ObSelectionRan == ob_pc # "init" /\ ob_directory.ok

\* bestBid or bestAsk of the market is a value float() rejects.
ObUnparsed(m) == m.bestBid.kind = "bad" \/ m.bestAsk.kind = "bad"

\* The field is missing from the market.
ObMissing(field) == field.kind = "absent"

\* The market carries a token id: clobTokenIds parses to a non-empty list.
ObHasTokenId(m) == m.has_ids /\ m.ids_parse /\ m.ids # <<>>

\* The first token of market k is in the selected list.
ObPicked(k) == ob_directory.markets[k].ids # <<>> /\ ObSelected(k)

\* Fewer than the limit were selected among the markets ahead of market k.
ObRoomAt(k) == Cardinality({j \in 1..(k - 1) : ObPicked(j)}) < OB_LIMIT

\* The selected list never exceeds the limit and holds at most one token of
\* each market.
ObSelectionBounded ==
    /\ Len(ob_tokens) <= OB_LIMIT
    /\ \A k \in 1..Len(ob_directory.markets) :
          LET ids == ob_directory.markets[k].ids
          IN  Cardinality({t \in 1..Len(ob_tokens) :
                            \E i \in 1..Len(ids) : ob_tokens[t] = ids[i]}) <= 1

\* C38: an instrument whose best-bid/best-ask fields are missing (they default to
\* bid 0 and ask 1, mid 0.50) or cannot be parsed (the filter is skipped) is not
\* rejected by the mid-price filter, so it is selected whenever it has a token id
\* and the list is not yet full; the selected list never exceeds the limit and
\* holds at most one token per instrument.
C38_UnpricedSelectedWhenTokenId ==
    ObSelectionRan =>
        /\ ObSelectionBounded
        /\ \A k \in 1..Len(ob_directory.markets) :
              LET m == ob_directory.markets[k]
              IN  (/\ ObUnparsed(m) \/ (ObMissing(m.bestBid) /\ ObMissing(m.bestAsk))
                   /\ ObHasTokenId(m)
                   /\ ObRoomAt(k)) => ObPicked(k)

\* C14: when the poller has been stopped (statistics printed, storage handle
\* closed, process exited), every result of the batch that was in flight has been
\* handled: no fetched order book of that batch is left unstored because the
\* handle was closed first.
C14_StopFinishesBatch ==
    ob_exit = "stop" =>
        /\ ob_conn \in {"none", "closed"}
        /\ \A k \in 1..Len(ob_results) :
              ShouldStore(ob_results[k]) => ob_written[k] # "no_call"

====
